---- MODULE Spec2Model ----
(***************************************************************************)
(* A model of the orb object-relational mapper: column validation          *)
(* (orb/core/column.py), the reverse-lookup cache                           *)
(* (orb/schema/meta/metatable.py), the per-thread default-context stack    *)
(* (orb/core/context.py), the SQL Server execution layer                    *)
(* (orb/core/connection_types/sql/mssql/mssqlconnection.py), the pipe       *)
(* record set (orb/data/piperecordset.py) and the options of a Context,     *)
(* its expand option among them (orb/core/context.py).                      *)
(*                                                                         *)
(* Each component has its own variables and its own specification; a       *)
(* specification leaves the other components' variables at their idle      *)
(* values.                                                                 *)
(***************************************************************************)
EXTENDS Integers, Sequences, FiniteSets, TLC

VARIABLES
    \* ---- Column.validate
    colFlags,       \* the column's flag bitset
    colValue,       \* the value handed to validate
    colOutcome,     \* "pending", "True" or "ColumnValidationError"
    \* ---- Context: the per-thread stacks of default contexts
    ctxThreads,     \* the threads that run
    ctxDepth,       \* how deep the run nests `with` blocks
    clsDefaults,    \* the class attribute __defaults: 0 (None) or a map
    clsLock,        \* the class attribute __defaultsLock: 0 (not set) or a lock
    maps,           \* each defaultdict(list) created so far: thread id -> stack
    lockWriter,     \* each ReadWriteLock: the thread writing, or 0
    lockReaders,    \* each ReadWriteLock: the threads reading
    built,          \* the Context objects constructed so far
    tpc,            \* each thread's position in the call it is making
    tcall,          \* each thread's call: operation, argument, local variables
    blocks,         \* each thread's open `with` blocks, innermost last
    unwinding,      \* whether an exception is propagating in the thread
    tlast,          \* each thread's last finished call and its outcome
    \* ---- reverselookupmethod: one reverse lookup of one model
    rlCached,       \* self.cached
    rlUnique,       \* self.unique
    rlTimeout,      \* self.cacheTimeout
    rlHasCache,     \* whether self._cache holds a TableCache for the table
    rlLocal,        \* self._local_cache: key -> collection, 0 when absent
    tcExpiry,       \* the TableCache: key -> the time its entry expires, 0 when absent
    now,            \* the clock
    nextColl,       \* the collections created so far
    rlLast,         \* the last call and its outcome
    \* ---- MSSQLConnection._execute on one native connection
    exPc,           \* "idle", "running", "fetch" or "done"
    exVia,          \* "execute" or "delete": who called _execute
    exCommand,      \* the command text
    exReturning,    \* the returning argument
    exCommands,     \* the list of statements _execute built
    exLog,          \* the texts handed to cursor.execute, in order
    exRowcount,     \* the rowcount accumulated
    exFailure,      \* the native error the driver raised, if any
    exOutcome,      \* what the call returned or raised
    exCalls,        \* the calls made so far
    exEntry,        \* the connection's transaction state when the call began
    nativeTxn,      \* explicit transactions begun on the connection and not ended
    nativePending,  \* statements applied on the connection and not committed
    nativeCancel,   \* whether the driver has been told to cancel the statement in flight
    \* ---- PipeRecordSet: the record sets over one pipe table
    pipeRows,       \* the pipe table: how many rows it has of each (source, target, role)
    entityRows,     \* the rows of the source and of the target table
    pipeLast,       \* the last call and its outcome
    \* ---- Context: the options of the contexts a thread constructs
    optNames,       \* the options the run passes
    optDefault,     \* the top of the thread's default-context stack, if any
    optSource,      \* a context constructed to be passed as context=
    optKwds,        \* the keyword arguments of the construction under study
    optNew,         \* the context that construction made, or the exception it raised
    optLast,        \* the last read or comparison made on it and its outcome
    \* ---- Context.expand and Context.expandtree
    expValue,       \* raw_values['expand'] of a context
    expLast,        \* the last call on the context and its outcome
    \* ---- PipeRecordSet.addRecord called by threads
    pipeCalls,      \* each thread's call of addRecord: position, arguments, outcome
    \* ---- MSSQLConnection: the native handles _open returns
    nativeState,    \* each handle: "none" (not opened), "open", "closed" or "lost"
    connLast,       \* the last call of _open or _closed and its outcome
    \* ---- Column.fromJSON: one column, its serialized definition and what loads from it
    jsColumn,       \* the column
    jsData,         \* its serialized definition, a dict, or None
    jsLoaded,       \* what fromJSON made of a definition, or the exception it raised
    \* ---- the SQL statement generators, for one model and one record of it
    stModel,        \* the model: its type, its own columns, whether it inherits
    stRecord,       \* the record: whether it is stored, its values, its changed columns
    stDb,           \* the database: its tables with their columns, the record's rows
    stResult,       \* the last call of a generator: its arguments and what came of it
    stExec          \* what came of unpacking that result and executing it

colVars == <<colFlags, colValue, colOutcome>>

ctxVars == <<ctxThreads, ctxDepth, clsDefaults, clsLock, maps, lockWriter, lockReaders, built,
             tpc, tcall, blocks, unwinding, tlast>>

rlVars == <<rlCached, rlUnique, rlTimeout, rlHasCache, rlLocal, tcExpiry, now, nextColl,
            rlLast>>

exVars == <<exPc, exVia, exCommand, exReturning, exCommands, exLog, exRowcount, exFailure,
            exOutcome, exCalls, exEntry, nativeTxn, nativePending, nativeCancel>>

pipeVars == <<pipeRows, entityRows, pipeLast>>

optVars == <<optNames, optDefault, optSource, optKwds, optNew, optLast>>

expVars == <<expValue, expLast>>

raceVars == <<pipeCalls>>

connVars == <<nativeState, connLast>>

jsonVars == <<jsColumn, jsData, jsLoaded>>

stVars == <<stModel, stRecord, stDb, stResult, stExec>>

vars == <<colVars, ctxVars, rlVars, exVars, pipeVars, optVars, expVars, raceVars, connVars,
          jsonVars, stVars>>

\* what a step of one component leaves alone: the other components
ColumnStep == UNCHANGED <<ctxVars, rlVars, exVars, pipeVars, optVars, expVars, raceVars,
                          connVars, jsonVars, stVars>>

ContextStep == UNCHANGED <<colVars, rlVars, exVars, pipeVars, optVars, expVars, raceVars,
                           connVars, jsonVars, stVars>>

LookupStep == UNCHANGED <<colVars, ctxVars, exVars, pipeVars, optVars, expVars, raceVars,
                          connVars, jsonVars, stVars>>

ExecuteStep == UNCHANGED <<colVars, ctxVars, rlVars, pipeVars, optVars, expVars, raceVars,
                           connVars, jsonVars, stVars>>

PipeStep == UNCHANGED <<colVars, ctxVars, rlVars, exVars, optVars, expVars, raceVars,
                        connVars, jsonVars, stVars>>

OptionsStep == UNCHANGED <<colVars, ctxVars, rlVars, exVars, pipeVars, expVars, raceVars,
                           connVars, jsonVars, stVars>>

ExpandStep == UNCHANGED <<colVars, ctxVars, rlVars, exVars, pipeVars, optVars, raceVars,
                          connVars, jsonVars, stVars>>

RaceStep == UNCHANGED <<colVars, ctxVars, rlVars, exVars, optVars, expVars, connVars,
                        jsonVars, stVars>>

HandleStep == UNCHANGED <<colVars, ctxVars, rlVars, exVars, pipeVars, optVars, expVars,
                          raceVars, jsonVars, stVars>>

JsonStep == UNCHANGED <<colVars, ctxVars, rlVars, exVars, pipeVars, optVars, expVars,
                        raceVars, connVars, stVars>>

StatementStep == UNCHANGED <<colVars, ctxVars, rlVars, exVars, pipeVars, optVars, expVars,
                             raceVars, connVars, jsonVars>>

(***************************************************************************)
(* Python values, as far as truthiness and type tests go.                  *)
(***************************************************************************)
PyNone == [t |-> "NoneType", v |-> 0]

PyStr(s) == [t |-> "str", v |-> s]

PyBool(b) == [t |-> "bool", v |-> b]

PyInt(i) == [t |-> "int", v |-> i]

PyList(l) == [t |-> "list", v |-> l]

\* an orb.Query: the conditions it joins with AND, none for the null query
PyQuery(q) == [t |-> "Query", v |-> q]

\* bool(value): None is false, a string or a list is true iff non-empty, a number iff
\* non-zero, a query iff not null.
Truthy(value) ==
    CASE value.t = "NoneType" -> FALSE
      [] value.t = "str"      -> value.v # ""
      [] value.t = "bool"     -> value.v
      [] value.t = "int"      -> value.v # 0
      [] value.t = "list"     -> value.v # <<>>
      [] value.t = "Query"    -> value.v # <<>>

(***************************************************************************)
(* Column (orb/core/column.py)                                             *)
(***************************************************************************)
\* Column.Flags: projex's enum numbers its names 1, 2, 4, ... in order.
Primary == 8

AutoIncrement == 16

Required == 32

Unique == 64

\* The flags the model lets a column combine.
ColumnFlagBits == {Primary, AutoIncrement, Required, Unique}

RECURSIVE SumOf(_)
SumOf(S) == IF S = {} THEN 0 ELSE LET x == CHOOSE y \in S : TRUE IN x + SumOf(S \ {x})

ColumnFlagSets == {SumOf(S) : S \in SUBSET ColumnFlagBits}

\* flags & flag, for a single-bit flag
BitAnd(flags, flag) == IF (flags \div flag) % 2 = 1 THEN flag ELSE 0

\* Column.testFlag, for the non-negative flags validate passes
testFlag(flags, flag) == BitAnd(flags, flag) # 0

\* a null test that forgets the boolean exception
isNullNoBoolCheck(value) == ~Truthy(value)

\* Column.isNull: type(value) is not bool and not bool(value)
isNull(value) == value.t # "bool" /\ ~Truthy(value)

\* Column.validate: the outcome of validate(value) on a column with these flags
validate(flags, value) ==
    IF testFlag(flags, Required) /\ ~testFlag(flags, AutoIncrement) /\ isNull(value)
    THEN "ColumnValidationError"
    ELSE "True"

ColumnValues ==
    {PyNone, PyStr(""), PyStr("bob"), PyBool(FALSE), PyBool(TRUE), PyInt(0), PyInt(7)}

ColInit ==
    /\ colFlags \in ColumnFlagSets
    /\ colValue \in ColumnValues
    /\ colOutcome = "pending"

ColIdle ==
    /\ colFlags = 0
    /\ colValue = PyNone
    /\ colOutcome = "pending"

\* one call of column.validate(value)
Validate ==
    /\ colOutcome = "pending"
    /\ colOutcome' = validate(colFlags, colValue)
    /\ UNCHANGED <<colFlags, colValue>>
    /\ ColumnStep

\* the caller takes the outcome and validates another value
NextValue ==
    /\ colOutcome # "pending"
    /\ colValue' \in ColumnValues
    /\ colOutcome' = "pending"
    /\ UNCHANGED colFlags
    /\ ColumnStep

ColNext == Validate \/ NextValue

\* C1: on a column with Required and without AutoIncrement, validate(None) and
\* validate('') raise ColumnValidationError and validate(False) returns True; on
\* every other column validate returns True for every value.
C1_ValidateRequired ==
    colOutcome # "pending" =>
        IF testFlag(colFlags, Required) /\ ~testFlag(colFlags, AutoIncrement)
        THEN /\ colValue \in {PyNone, PyStr("")} => colOutcome = "ColumnValidationError"
             /\ colValue = PyBool(FALSE) => colOutcome = "True"
        ELSE colOutcome = "True"

C1_Witness ==
    /\ colFlags = Required + Unique
    /\ colValue = PyBool(FALSE)
    /\ colOutcome = "True"

(***************************************************************************)
(* Context: the stack of default contexts (orb/core/context.py)            *)
(*                                                                         *)
(* defaultContext, pushDefaultContext and popDefaultContext each start     *)
(* with the same lazy creation of the class attributes __defaults and      *)
(* __defaultsLock, then take the lock they found and work on the map they  *)
(* found.  A thread's call is a sequence of steps (GetDefaults,            *)
(* SetDefaults, SetLock, GetLock, Acquire, Locked) that other threads may  *)
(* interleave with.  The map and the lock a thread creates carry the       *)
(* thread's id: a thread creates them at most once, since __defaults is    *)
(* never reset to None.                                                    *)
(***************************************************************************)
NumThreads == 2

NumContexts == 2

MaxDepth == 3

MaxThreadDepth == 1

Threads == 1 .. NumThreads

Contexts == 1 .. NumContexts

\* list[-1], 0 standing for "no element"
Last(s) == IF s = <<>> THEN 0 ELSE s[Len(s)]

\* a pop that removes the oldest entry instead of the newest
PopFirst(s) == Tail(s)

\* list.pop(): the list without its last element
PopList(s) == SubSeq(s, 1, Len(s) - 1)

\* list.append(x)
AppendList(s, x) == Append(s, x)

NoCall == [op |-> "none", arg |-> 0, defaults |-> 0, lock |-> 0, priorTop |-> 0, priorDepth |-> 0]

NoLast == [op |-> "none", exc |-> "", ret |-> 0, priorTop |-> 0, priorDepth |-> 0]

\* what defaultContext() returns to thread t: the last entry of the thread's list
\* in the class's map, None (0) when the list is empty
defaultContextValue(t) == IF clsDefaults = 0 THEN 0 ELSE Last(maps[clsDefaults][t])

\* the depth of thread t's stack in the class's map
stackDepth(t) == IF clsDefaults = 0 THEN 0 ELSE Len(maps[clsDefaults][t])

CtxInitCommon ==
    /\ clsDefaults = 0
    /\ clsLock = 0
    /\ maps = [m \in Threads |-> [t \in Threads |-> <<>>]]
    /\ lockWriter = [l \in Threads |-> 0]
    /\ lockReaders = [l \in Threads |-> {}]
    /\ built = {}
    /\ tpc = [t \in Threads |-> "idle"]
    /\ tcall = [t \in Threads |-> NoCall]
    /\ blocks = [t \in Threads |-> <<>>]
    /\ unwinding = [t \in Threads |-> FALSE]
    /\ tlast = [t \in Threads |-> NoLast]

\* every thread runs
CtxInit == ctxThreads = Threads /\ ctxDepth = MaxThreadDepth /\ CtxInitCommon

\* one thread runs
CtxInitOneThread == ctxThreads = {1} /\ ctxDepth = MaxDepth /\ CtxInitCommon

CtxIdle == ctxThreads = {} /\ ctxDepth = 0 /\ CtxInitCommon

\* Context(...): __init__ starts with a call of defaultContext()
Construct(t, c) ==
    /\ tpc[t] = "idle" /\ ~unwinding[t]
    /\ ContextStep
    /\ tpc' = [tpc EXCEPT ![t] = "start"]
    /\ tcall' = [tcall EXCEPT ![t] = [NoCall EXCEPT !.op = "get", !.arg = c]]
    /\ UNCHANGED <<ctxThreads, ctxDepth, clsDefaults, clsLock, maps, lockWriter, lockReaders,
                   built, blocks, unwinding, tlast>>

\* `with context:` __enter__ calls pushDefaultContext(self)
Enter(t, c) ==
    /\ tpc[t] = "idle" /\ ~unwinding[t]
    /\ ContextStep
    /\ c \in built
    /\ Len(blocks[t]) < ctxDepth
    /\ tpc' = [tpc EXCEPT ![t] = "start"]
    /\ tcall' = [tcall EXCEPT ![t] =
                    [NoCall EXCEPT !.op = "push", !.arg = c,
                                   !.priorTop = defaultContextValue(t),
                                   !.priorDepth = stackDepth(t)]]
    /\ UNCHANGED <<ctxThreads, ctxDepth, clsDefaults, clsLock, maps, lockWriter, lockReaders,
                   built, blocks, unwinding, tlast>>

\* the end of a `with` block, reached normally or by an exception: __exit__ calls
\* popDefaultContext()
Exit(t) ==
    /\ tpc[t] = "idle"
    /\ ContextStep
    /\ blocks[t] # <<>>
    /\ tpc' = [tpc EXCEPT ![t] = "start"]
    /\ tcall' = [tcall EXCEPT ![t] =
                    [NoCall EXCEPT !.op = "pop",
                                   !.priorTop = Last(blocks[t]).priorTop,
                                   !.priorDepth = Last(blocks[t]).priorDepth]]
    /\ UNCHANGED <<ctxThreads, ctxDepth, clsDefaults, clsLock, maps, lockWriter, lockReaders,
                   built, blocks, unwinding, tlast>>

\* the body of a `with` block raises
Raise(t) ==
    /\ tpc[t] = "idle" /\ ~unwinding[t]
    /\ ContextStep
    /\ blocks[t] # <<>>
    /\ unwinding' = [unwinding EXCEPT ![t] = TRUE]
    /\ UNCHANGED <<ctxThreads, ctxDepth, clsDefaults, clsLock, maps, lockWriter, lockReaders,
                   built, tpc, tcall, blocks, tlast>>

\* an except clause around the code that raised catches the exception
Catch(t) ==
    /\ tpc[t] = "idle" /\ unwinding[t]
    /\ ContextStep
    /\ unwinding' = [unwinding EXCEPT ![t] = FALSE]
    /\ UNCHANGED <<ctxThreads, ctxDepth, clsDefaults, clsLock, maps, lockWriter, lockReaders,
                   built, tpc, tcall, blocks, tlast>>

\* the call of thread t ends: what it leaves behind in the thread
Finish(t, exc, ret) ==
    LET call == tcall[t] IN
    /\ tpc' = [tpc EXCEPT ![t] = "idle"]
    /\ tcall' = [tcall EXCEPT ![t] = NoCall]
    /\ tlast' = [tlast EXCEPT ![t] =
                    [op |-> call.op, exc |-> exc, ret |-> ret,
                     priorTop |-> IF call.op = "pop" THEN call.priorTop ELSE 0,
                     priorDepth |-> IF call.op = "pop" THEN call.priorDepth ELSE 0]]
    \* a constructor that raised constructs nothing
    /\ built' = IF call.op = "get" /\ exc = "" THEN built \cup {call.arg} ELSE built
    \* __enter__ that raised opens no block; the block __exit__ ends is closed
    /\ blocks' = [blocks EXCEPT ![t] =
                    CASE call.op = "push" /\ exc = "" ->
                            Append(@, [ctx |-> call.arg, priorTop |-> call.priorTop,
                                       priorDepth |-> call.priorDepth])
                      [] call.op = "pop" -> SubSeq(@, 1, Len(@) - 1)
                      [] OTHER -> @]
    /\ unwinding' = [unwinding EXCEPT ![t] = IF exc # "" THEN TRUE ELSE @]

\* defaults = getattr(cls, '_Context__defaults', None)
GetDefaults(t) ==
    /\ tpc[t] = "start"
    /\ ContextStep
    /\ tcall' = [tcall EXCEPT ![t].defaults = clsDefaults]
    /\ tpc' = [tpc EXCEPT ![t] = IF clsDefaults = 0 THEN "create" ELSE "getlock"]
    /\ UNCHANGED <<ctxThreads, ctxDepth, clsDefaults, clsLock, maps, lockWriter, lockReaders,
                   built, blocks, unwinding, tlast>>

\* defaults = defaultdict(list); lock = ReadWriteLock(); setattr(cls, '_Context__defaults', defaults)
SetDefaults(t) ==
    /\ tpc[t] = "create"
    /\ ContextStep
    /\ tcall' = [tcall EXCEPT ![t].defaults = t, ![t].lock = t]
    /\ clsDefaults' = t
    /\ tpc' = [tpc EXCEPT ![t] = "setlock"]
    /\ UNCHANGED <<ctxThreads, ctxDepth, clsLock, maps, lockWriter, lockReaders,
                   built, blocks, unwinding, tlast>>

\* setattr(cls, '_Context__defaultsLock', lock)
SetLock(t) ==
    /\ tpc[t] = "setlock"
    /\ ContextStep
    /\ clsLock' = tcall[t].lock
    /\ tpc' = [tpc EXCEPT ![t] = "acquire"]
    /\ UNCHANGED <<ctxThreads, ctxDepth, clsDefaults, maps, lockWriter, lockReaders,
                   built, tcall, blocks, unwinding, tlast>>

\* lock = getattr(cls, '_Context__defaultsLock'): AttributeError while the
\* attribute is not set
GetLock(t) ==
    /\ tpc[t] = "getlock"
    /\ ContextStep
    /\ IF clsLock = 0
       THEN /\ Finish(t, "AttributeError", 0)
            /\ UNCHANGED <<ctxThreads, ctxDepth, clsDefaults, clsLock, maps, lockWriter, lockReaders>>
       ELSE /\ tcall' = [tcall EXCEPT ![t].lock = clsLock]
            /\ tpc' = [tpc EXCEPT ![t] = "acquire"]
            /\ UNCHANGED <<ctxThreads, ctxDepth, clsDefaults, clsLock, maps, lockWriter, lockReaders,
                           built, blocks, unwinding, tlast>>

\* with ReadLocker(lock) in defaultContext, with WriteLocker(lock) in the other two:
\* a writer waits for the lock to be free, a reader for no writer
Acquire(t) ==
    /\ tpc[t] = "acquire"
    /\ ContextStep
    /\ LET l == tcall[t].lock IN
       IF tcall[t].op = "get"
       THEN /\ lockWriter[l] = 0
            /\ lockReaders' = [lockReaders EXCEPT ![l] = @ \cup {t}]
            /\ UNCHANGED lockWriter
       ELSE /\ lockWriter[l] = 0 /\ lockReaders[l] = {}
            /\ lockWriter' = [lockWriter EXCEPT ![l] = t]
            /\ UNCHANGED lockReaders
    /\ tpc' = [tpc EXCEPT ![t] = "locked"]
    /\ UNCHANGED <<ctxThreads, ctxDepth, clsDefaults, clsLock, maps, built, tcall, blocks,
                   unwinding, tlast>>

\* the statement under the lock, on the map the call found, and the release of the
\* lock as the `with` statement ends:
\*   defaultContext       return defaults[tid][-1], None on IndexError
\*   pushDefaultContext   defaults[tid].append(context)
\*   popDefaultContext    defaults[tid].pop(), IndexError on an empty list
Locked(t) ==
    /\ tpc[t] = "locked"
    /\ ContextStep
    /\ LET call == tcall[t]
           l == call.lock
           stack == maps[call.defaults][t]
       IN /\ lockWriter' = [lockWriter EXCEPT ![l] = IF @ = t THEN 0 ELSE @]
          /\ lockReaders' = [lockReaders EXCEPT ![l] = @ \ {t}]
          /\ CASE call.op = "get" ->
                    /\ Finish(t, "", Last(stack))
                    /\ UNCHANGED maps
               [] call.op = "push" ->
                    /\ maps' = [maps EXCEPT ![call.defaults][t] = AppendList(stack, call.arg)]
                    /\ Finish(t, "", 0)
               [] call.op = "pop" ->
                    IF stack = <<>>
                    THEN Finish(t, "IndexError", 0) /\ UNCHANGED maps
                    ELSE /\ maps' = [maps EXCEPT ![call.defaults][t] = PopList(stack)]
                         /\ Finish(t, "", 0)
    /\ UNCHANGED <<ctxThreads, ctxDepth, clsDefaults, clsLock>>

CtxNext ==
    \/ \E t \in ctxThreads, c \in Contexts : Construct(t, c)
    \/ \E t \in ctxThreads, c \in Contexts : Enter(t, c)
    \/ \E t \in ctxThreads : Exit(t)
    \/ \E t \in ctxThreads : Raise(t)
    \/ \E t \in ctxThreads : Catch(t)
    \/ \E t \in ctxThreads : GetDefaults(t)
    \/ \E t \in ctxThreads : SetDefaults(t)
    \/ \E t \in ctxThreads : SetLock(t)
    \/ \E t \in ctxThreads : GetLock(t)
    \/ \E t \in ctxThreads : Acquire(t)
    \/ \E t \in ctxThreads : Locked(t)

\* the context thread t pushed last and has not popped: its innermost open block's
topOfBlocks(t) == IF blocks[t] = <<>> THEN 0 ELSE Last(blocks[t]).ctx

\* C4: when a `with Context(...)` block of a thread exits, normally or by an
\* exception, defaultContext() in the thread is the context that was on top before
\* the block was entered (None if there was none) and the stack is as deep as before.
C4_ExitRestoresPriorTop ==
    \A t \in ctxThreads :
        (tpc[t] = "idle" /\ tlast[t].op = "pop") =>
            /\ tlast[t].exc = ""
            /\ defaultContextValue(t) = tlast[t].priorTop
            /\ stackDepth(t) = tlast[t].priorDepth

\* an inner block left by an exception, the outer block's context on top again
C4_Witness ==
    /\ tpc[1] = "idle" /\ tlast[1].op = "pop" /\ unwinding[1]
    /\ tlast[1].priorTop # 0 /\ tlast[1].priorDepth = 2
    /\ defaultContextValue(1) = tlast[1].priorTop

\* C5: with threads interleaving pushDefaultContext, popDefaultContext and
\* defaultContext from their first calls on, no push is lost, defaultContext()
\* returns to each thread the last context that thread pushed and has not popped,
\* and no thread changes the map while another thread reads or changes it.
C5_ThreadsKeepTheirOwnTop ==
    /\ \A t \in ctxThreads :
          (tpc[t] = "idle" /\ tlast[t].op = "push" /\ tlast[t].exc = "") =>
              defaultContextValue(t) = topOfBlocks(t)
    /\ \A t \in ctxThreads :
          (tpc[t] = "idle" /\ tlast[t].op = "get" /\ tlast[t].exc = "") =>
              tlast[t].ret = topOfBlocks(t)
    /\ \A t, u \in ctxThreads :
          (t # u /\ tpc[t] = "locked" /\ tpc[u] = "locked"
                 /\ tcall[t].defaults = tcall[u].defaults) =>
              (tcall[t].op = "get" /\ tcall[u].op = "get")

(***************************************************************************)
(* reverselookupmethod (orb/schema/meta/metatable.py)                      *)
(*                                                                         *)
(* One reverse lookup of one model, called by one thread.  A cache key is  *)
(* (record.id(), hash of the lookup options, database name); there is one *)
(* database.  A collection is a number, 0 standing for None; every select  *)
(* and every preload creates a new one.                                    *)
(***************************************************************************)
MaxTimeout == 2

MaxTime == 2

MaxCollections == 2

\* (record id, options hash): two records, two option sets
Keys == {<<1, 1>>, <<1, 2>>, <<2, 1>>}

\* the attributes __init__ gives a reverselookupmethod
InstanceAttrs ==
    {"__lookup__", "_cache", "_local_cache", "reference", "referenceDb", "columnName",
     "unique", "cached", "cacheTimeout", "func_name", "func_args", "func_doc",
     "__doc__", "__name__"}

\* TableCache.isCached(key): the key has an entry that has not timed out
isCached(key) == tcExpiry[key] # 0 /\ now < tcExpiry[key]

\* TableCache.setValue(key, True, timeout=self.cacheTimeout)
setValue(key) == [tcExpiry EXCEPT ![key] = now + rlTimeout]

\* reverselookupmethod.cache(table, force): whether it returns a cache
cache(force) == rlHasCache \/ force \/ rlCached

NoPrev == [selected |-> FALSE, at |-> 0, ret |-> 0]

NoLookup ==
    [kind |-> "none", key |-> <<0, 0>>, reload |-> FALSE, isRecord |-> FALSE,
     expired |-> FALSE, stale |-> 0, selected |-> FALSE, output |-> 0, exc |-> "",
     ret |-> 0, at |-> 0, prev |-> NoPrev]

\* the select of the call before this one, when that call was for the same key
prevSelect(key) ==
    IF rlLast.kind = "call" /\ rlLast.key = key /\ rlLast.selected
    THEN [selected |-> TRUE, at |-> rlLast.at, ret |-> rlLast.output]
    ELSE NoPrev

LookupInitCommon ==
    /\ rlHasCache = FALSE
    /\ rlLocal = [k \in Keys |-> 0]
    /\ tcExpiry = [k \in Keys |-> 0]
    /\ now = 0
    /\ nextColl = 0
    /\ rlLast = NoLookup

\* the lookup as MetaTable creates it from the column's reverse descriptor
LookupInit ==
    /\ rlCached \in BOOLEAN
    /\ rlUnique \in BOOLEAN
    /\ rlTimeout \in 1 .. MaxTimeout
    /\ LookupInitCommon

LookupIdle ==
    /\ rlCached = FALSE
    /\ rlUnique = FALSE
    /\ rlTimeout = 1
    /\ LookupInitCommon

\* reverselookupmethod.__call__(record, reload=..., **options): found says whether
\* the select matches anything (selectFirst returns None when nothing does)
Call(key, reload, isRecord, found) ==
    /\ LookupStep
    /\ nextColl < MaxCollections
    /\ LET hit == ~reload /\ cache(FALSE) /\ rlLocal[key] # 0 /\ isCached(key)
           fresh == nextColl + 1
           output == IF rlUnique /\ ~found THEN 0 ELSE fresh
           stores == cache(FALSE) /\ output # 0
           call == [NoLookup EXCEPT !.kind = "call", !.key = key, !.reload = reload,
                                    !.isRecord = isRecord, !.at = now,
                                    !.expired = (tcExpiry[key] # 0 /\ ~isCached(key)),
                                    !.stale = rlLocal[key],
                                    !.prev = prevSelect(key)]
       IN /\ rlHasCache' = cache(FALSE)
          /\ IF hit
             THEN \* return self._local_cache[cache_key]
                  /\ rlLast' = [call EXCEPT !.ret = rlLocal[key]]
                  /\ UNCHANGED <<rlLocal, tcExpiry, nextColl>>
             ELSE \* self._local_cache.pop(cache_key, None)
                  /\ rlLocal' = [rlLocal EXCEPT ![key] = 0]
                  /\ IF ~isRecord
                     THEN \* None or an empty RecordSet, without a select
                          /\ rlLast' = [call EXCEPT !.ret = IF rlUnique THEN 0 ELSE fresh]
                          /\ nextColl' = IF rlUnique THEN nextColl ELSE fresh
                          /\ UNCHANGED tcExpiry
                     ELSE \* table.select or table.selectFirst with the options
                          /\ nextColl' = IF output = 0 THEN nextColl ELSE fresh
                          /\ IF stores /\ "_locale_cache" \notin InstanceAttrs
                             THEN \* self._locale_cache[cache_key] = output
                                  /\ rlLast' = [call EXCEPT !.selected = TRUE,
                                                            !.output = output,
                                                            !.exc = "AttributeError"]
                                  /\ UNCHANGED tcExpiry
                             ELSE /\ rlLast' = [call EXCEPT !.selected = TRUE,
                                                            !.output = output,
                                                            !.ret = output]
                                  /\ tcExpiry' = IF stores THEN setValue(key) ELSE tcExpiry
    /\ UNCHANGED <<rlCached, rlUnique, rlTimeout, now>>

\* reverselookupmethod.preload(record, data, lookup)
Preload(key) ==
    /\ LookupStep
    /\ nextColl < MaxCollections
    /\ rlHasCache' = cache(TRUE)
    /\ IF rlLocal[key] = 0
       THEN /\ rlLocal' = [rlLocal EXCEPT ![key] = nextColl + 1]
            /\ nextColl' = nextColl + 1
            /\ tcExpiry' = setValue(key)
       ELSE UNCHANGED <<rlLocal, nextColl, tcExpiry>>
    /\ rlLast' = [NoLookup EXCEPT !.kind = "preload", !.key = key, !.at = now]
    /\ UNCHANGED <<rlCached, rlUnique, rlTimeout, now>>

\* time passes
Tick ==
    /\ LookupStep
    /\ now < MaxTime
    /\ now' = now + 1
    /\ UNCHANGED <<rlCached, rlUnique, rlTimeout, rlHasCache, rlLocal, tcExpiry, nextColl,
                   rlLast>>

LookupNext ==
    \/ \E key \in Keys, reload, isRecord, found \in BOOLEAN :
          Call(key, reload, isRecord, found)
    \/ \E key \in Keys : Preload(key)
    \/ Tick

\* C2: on a lookup declared cached with timeout T, once a call for a key has run
\* its select, the next call for the same key, made before T has passed and
\* without reload, returns the collection of the first call and runs no select.
C2_SecondCallIsCached ==
    (/\ rlLast.kind = "call" /\ rlCached /\ ~rlLast.reload /\ rlLast.isRecord
     /\ rlLast.prev.selected /\ rlLast.prev.ret # 0
     /\ rlLast.at - rlLast.prev.at < rlTimeout)
        => (~rlLast.selected /\ rlLast.exc = "" /\ rlLast.ret = rlLast.prev.ret)

\* C3: a call with reload=True, or after the key's cache entry has timed out,
\* runs a select and returns that select's result, and the stale collection is no
\* longer in the local cache.
C3_ReloadSelectsAfresh ==
    (rlLast.kind = "call" /\ rlLast.isRecord /\ (rlLast.reload \/ rlLast.expired))
        => /\ rlLast.selected
           /\ rlLast.exc = ""
           /\ rlLast.ret = rlLast.output
           /\ (rlLast.stale # 0 => rlLocal[rlLast.key] # rlLast.stale)

(***************************************************************************)
(* MSSQLConnection (orb/core/connection_types/sql/mssql/mssqlconnection.py)*)
(*                                                                         *)
(* A command text is a sequence of characters: ";" separates statements,   *)
(* "d" stands for the text of a DELETE and "i" for any other text.  The    *)
(* native driver answers each cursor.execute and the cursor.fetchall with  *)
(* success or with one of its errors; an error message is a sequence of    *)
(* fragments.                                                              *)
(***************************************************************************)
MaxLen == 4

MaxCalls == 1

Alphabet == {";", "d", "i"}

CommandTexts == UNION {[1 .. n -> Alphabet] : n \in 0 .. MaxLen}

BeginTransaction == <<"BEGIN TRANSACTION">>

\* the index of the first ";" of text, 0 when it has none
RECURSIVE FirstSep(_, _)
FirstSep(text, i) ==
    IF i > Len(text) THEN 0 ELSE IF text[i] = ";" THEN i ELSE FirstSep(text, i + 1)

\* command.split(';'): the pieces between the separators, empty ones included
RECURSIVE Split(_)
Split(text) ==
    LET i == FirstSep(text, 1) IN
    IF i = 0 THEN <<text>>
    ELSE <<SubSeq(text, 1, i - 1)>> \o Split(SubSeq(text, i + 1, Len(text)))

\* a statement list that keeps the empty pieces
KeepAllPieces(pieces) == pieces

\* [cmd for cmd in pieces if cmd]
NonEmptyPieces(pieces) == SelectSeq(pieces, LAMBDA cmd : cmd # <<>>)

\* commands = [...]; if len(commands) > 1: commands.insert(0, 'BEGIN TRANSACTION')
CommandList(command) ==
    LET commands == NonEmptyPieces(Split(command)) IN
    IF Len(commands) > 1 THEN <<BeginTransaction>> \o commands ELSE commands

\* if not cmd.endswith(';'): cmd += ';'
Terminated(cmd) == IF cmd # <<>> /\ cmd[Len(cmd)] = ";" THEN cmd ELSE cmd \o <<";">>

\* what the driver can raise
UniqueSqlite == [type |-> "IntegrityError", msg |-> <<"UNIQUE constraint failed: ", "users.name">>]

UniqueMssql ==
    [type |-> "IntegrityError",
     msg |-> <<"Violation of UNIQUE KEY constraint 'uq'. Cannot insert duplicate key. The duplicate key value is ", "(bob)">>]

PrimaryMssql ==
    [type |-> "IntegrityError",
     msg |-> <<"Violation of PRIMARY KEY constraint 'pk'. Cannot insert duplicate key. The duplicate key value is ", "(1)">>]

ForeignKey ==
    [type |-> "IntegrityError",
     msg |-> <<"The DELETE statement conflicted with the REFERENCE constraint ", "fk_user">>]

Interrupted == [type |-> "OperationalError", msg |-> <<"interrupted">>]

Disconnected == [type |-> "OperationalError", msg |-> <<"DBPROCESS is dead or not enabled">>]

Programming == [type |-> "ProgrammingError", msg |-> <<"Incorrect syntax">>]

NoError == [type |-> "", msg |-> <<>>]

ExecuteErrors ==
    {UniqueSqlite, UniqueMssql, PrimaryMssql, ForeignKey, Disconnected, Programming}

FetchErrors == {Disconnected, Programming}

\* err == 'interrupted': an exception object compared with a str; the exception
\* classes define no __eq__, so the comparison is by identity and is never true
ErrEqualsText(err, text) == FALSE

\* re.search('UNIQUE constraint failed: (.*)', nstr(err)): the group, <<>> for no match
RECURSIVE DuplicateSearch(_, _)
DuplicateSearch(msg, i) ==
    IF i > Len(msg) THEN <<>>
    ELSE IF msg[i] = "UNIQUE constraint failed: " THEN SubSeq(msg, i + 1, Len(msg))
    ELSE DuplicateSearch(msg, i + 1)

\* the except clauses of _execute: what is raised for the driver's error on cmd
Classify(err, cmd, command) ==
    CASE err.type = "OperationalError" ->
            IF ErrEqualsText(err, "interrupted")
            THEN [exc |-> "Interruption", carries |-> <<>>]
            ELSE [exc |-> "QueryFailed", carries |-> <<cmd, "data", err.msg>>]
      [] err.type = "IntegrityError" ->
            IF DuplicateSearch(err.msg, 1) # <<>>
            THEN [exc |-> "DuplicateEntryFound",
                  carries |-> <<DuplicateSearch(err.msg, 1) \o <<" is already being used.">>>>]
            ELSE [exc |-> "QueryFailed", carries |-> <<command, "data", err.msg>>]
      [] OTHER -> [exc |-> "QueryFailed", carries |-> <<cmd, "data", err.msg>>]

NoOutcome == [kind |-> "none", exc |-> "", carries |-> <<>>, rows |-> 0, rowcount |-> 0]

NoFailure == [phase |-> "", at |-> 0, err |-> NoError]

ExecuteInit ==
    /\ exPc = "idle"
    /\ exVia = ""
    /\ exCommand = <<>>
    /\ exReturning = FALSE
    /\ exCommands = <<>>
    /\ exLog = <<>>
    /\ exRowcount = 0
    /\ exFailure = NoFailure
    /\ exOutcome = NoOutcome
    /\ exCalls = 0
    /\ exEntry = [txn |-> 0, pending |-> 0]
    /\ nativeTxn = 0
    /\ nativePending = 0
    /\ nativeCancel = FALSE

\* the entry of a call: lines 58 to 84
Enter_execute(via, command, returning) ==
    /\ exPc = "idle"
    /\ exCalls < MaxCalls
    /\ exCalls' = exCalls + 1
    /\ exPc' = "running"
    /\ exVia' = via
    /\ exCommand' = command
    /\ exReturning' = returning
    /\ exCommands' = CommandList(command)
    /\ exLog' = <<>>
    /\ exRowcount' = 0
    /\ exFailure' = NoFailure
    /\ exOutcome' = NoOutcome
    /\ exEntry' = [txn |-> nativeTxn, pending |-> nativePending]
    /\ UNCHANGED <<nativeTxn, nativePending, nativeCancel>>

\* Connection.execute(command, data, returning) reaching _execute
Execute(command, returning) ==
    /\ Enter_execute("execute", command, returning)
    /\ ExecuteStep

\* SQLConnection.delete: the DELETE statement for the records, executed with
\* _execute; an error of _execute propagates
superDelete == Enter_execute("delete", <<"d">>, TRUE)

\* MSSQLConnection.delete(records, context)
Delete ==
    /\ superDelete
    /\ ExecuteStep

\* one turn of the loop: cursor.execute(cmd, data) and the except clauses around it
ExecStatement(err, count) ==
    /\ exPc = "running"
    /\ Len(exLog) < Len(exCommands)
    /\ LET cmd == Terminated(exCommands[Len(exLog) + 1])
           raised == IF nativeCancel THEN Interrupted ELSE err
       IN /\ exLog' = Append(exLog, cmd)
          /\ nativeCancel' = FALSE
          /\ IF raised = NoError
             THEN /\ exRowcount' = IF count # -1 THEN exRowcount + count ELSE exRowcount
                  /\ nativeTxn' = IF cmd = Terminated(BeginTransaction)
                                  THEN nativeTxn + 1 ELSE nativeTxn
                  /\ nativePending' = IF cmd = Terminated(BeginTransaction)
                                      THEN nativePending ELSE nativePending + 1
                  /\ UNCHANGED <<exPc, exFailure, exOutcome>>
             ELSE /\ exFailure' = [phase |-> "execute", at |-> Len(exLog) + 1, err |-> raised]
                  /\ exOutcome' = [NoOutcome EXCEPT
                                      !.kind = "raise",
                                      !.exc = Classify(raised, cmd, exCommand).exc,
                                      !.carries = Classify(raised, cmd, exCommand).carries]
                  /\ exPc' = "done"
                  /\ UNCHANGED <<exRowcount, nativeTxn, nativePending>>
    /\ UNCHANGED <<exVia, exCommand, exReturning, exCommands, exCalls, exEntry>>
    /\ ExecuteStep

\* after the loop with returning set: cursor.fetchall(), an OperationalError of which
\* gives no rows; any other error of it is not caught
FetchAll(err, rows) ==
    /\ exPc = "running"
    /\ Len(exLog) = Len(exCommands)
    /\ exReturning
    /\ exPc' = "done"
    /\ IF err = NoError
       THEN /\ exOutcome' = [NoOutcome EXCEPT !.kind = "return", !.rows = rows,
                                               !.rowcount = rows]
            /\ UNCHANGED exFailure
       ELSE /\ exFailure' = [phase |-> "fetch", at |-> 0, err |-> err]
            /\ exOutcome' =
                  IF err.type = "OperationalError"
                  THEN [NoOutcome EXCEPT !.kind = "return"]
                  ELSE [NoOutcome EXCEPT !.kind = "raise", !.exc = err.type,
                                         !.carries = <<err.msg>>]
    /\ UNCHANGED <<exVia, exCommand, exReturning, exCommands, exLog, exRowcount, exCalls,
                   exEntry, nativeTxn, nativePending, nativeCancel>>
    /\ ExecuteStep

\* after the loop without returning: return [], rowcount
ReturnCount ==
    /\ exPc = "running"
    /\ Len(exLog) = Len(exCommands)
    /\ ~exReturning
    /\ exPc' = "done"
    /\ exOutcome' = [NoOutcome EXCEPT !.kind = "return", !.rowcount = exRowcount]
    /\ UNCHANGED <<exVia, exCommand, exReturning, exCommands, exLog, exRowcount, exFailure,
                   exCalls, exEntry, nativeTxn, nativePending, nativeCancel>>
    /\ ExecuteStep

\* _interrupt(threadId, connection) from another thread while a statement is in
\* flight: connection.interrupt() cancels it or fails, and a failure is swallowed
Interrupt(cancels) ==
    /\ exPc = "running"
    /\ Len(exLog) < Len(exCommands)
    /\ ~nativeCancel
    /\ nativeCancel' = cancels
    /\ UNCHANGED <<exPc, exVia, exCommand, exReturning, exCommands, exLog, exRowcount,
                   exFailure, exOutcome, exCalls, exEntry, nativeTxn, nativePending>>
    /\ ExecuteStep

\* the caller has the outcome and the call's locals are gone; the connection, with
\* whatever the call left on it, is free for the next call
NextCall ==
    /\ exPc = "done"
    /\ exPc' = "idle"
    /\ exVia' = ""
    /\ exCommand' = <<>>
    /\ exReturning' = FALSE
    /\ exCommands' = <<>>
    /\ exLog' = <<>>
    /\ exRowcount' = 0
    /\ exFailure' = NoFailure
    /\ exOutcome' = NoOutcome
    /\ exEntry' = [txn |-> nativeTxn, pending |-> nativePending]
    /\ UNCHANGED <<exCalls, nativeTxn, nativePending, nativeCancel>>
    /\ ExecuteStep

ExecuteNext ==
    \/ \E command \in CommandTexts, returning \in BOOLEAN : Execute(command, returning)
    \/ Delete
    \/ \E err \in ExecuteErrors \cup {NoError}, count \in {-1, 1} : ExecStatement(err, count)
    \/ \E err \in FetchErrors \cup {NoError}, rows \in 0 .. 1 : FetchAll(err, rows)
    \/ ReturnCount
    \/ \E cancels \in BOOLEAN : Interrupt(cancels)
    \/ NextCall

(***************************************************************************)
(* PipeRecordSet (orb/data/piperecordset.py): the record sets that reach   *)
(* the target records of a source record through a pipe table.  A row of   *)
(* the pipe table has a source, a target and one more column, role.        *)
(***************************************************************************)
MaxRows == 2

Sources == {1, 2}

Targets == {1, 2}

Roles == {0, 1}

\* what the record argument can be: a record of the target table, or 0 for
\* anything the guard of the methods rejects
Records == Targets \cup {0}

\* the record sets: self._source and whether self._pipeTable is set
PipeSets ==
    {[source |-> 1, pipe |-> TRUE], [source |-> 2, pipe |-> TRUE],
     [source |-> 1, pipe |-> FALSE]}

\* the keyword options a call can pass: values for columns of the pipe table
PipeOptions == {{}, {<<"role", 1>>}}

\* the where option of clear: None or a query
PipeWheres == {[none |-> TRUE, conds |-> {}], [none |-> FALSE, conds |-> {<<"target", 1>>}]}

RowKinds == [source : Sources, target : Targets, role : Roles]

\* orb.Query(pipe, column) == value
QueryEq(column, value) == {<<column, value>>}

\* q &= other, for other a query
QueryAnd(q, other) == q \cup other

\* q &= where, for where None or a query
QueryAndWhere(q, where) == IF where.none THEN q ELSE QueryAnd(q, where.conds)

\* q &= orb.Query(pipe, key) == value for every item of options
QueryAndOptions(q, options) == q \cup options

\* whether a row of the pipe table satisfies a query
Matches(row, q) == \A cond \in q : row[cond[1]] = cond[2]

\* pipe.selectFirst(where = q): whether there is a row
selectFirst(rows, q) == \E row \in RowKinds : rows[row] > 0 /\ Matches(row, q)

\* pipe.select(where = q).remove(): the table without the selected rows
selectRemove(rows, q) == [row \in RowKinds |-> IF Matches(row, q) THEN 0 ELSE rows[row]]

\* pipe(options).commit(): the table with one more row
commitLink(rows, values) ==
    LET row == [source |-> values.source, target |-> values.target,
                role |-> IF \E c \in values.options : c[1] = "role"
                         THEN (CHOOSE c \in values.options : c[1] = "role")[2] ELSE 0]
    IN [rows EXCEPT ![row] = @ + 1]

RowCount(rows) ==
    LET RECURSIVE Sum(_)
        Sum(S) == IF S = {} THEN 0
                  ELSE LET r == CHOOSE x \in S : TRUE IN rows[r] + Sum(S \ {r})
    IN Sum(RowKinds)

\* table and record and record.isRecord() and isinstance(record, table)
validRecord(record) == record # 0

\* addRecord without the look for an existing link
addRecordNoLook(rows, self, record, unique, options) ==
    IF ~validRecord(record) \/ ~self.pipe THEN [rows |-> rows, ret |-> "None"]
    ELSE [rows |-> commitLink(rows, [source |-> self.source, target |-> record,
                                     options |-> options]),
          ret |-> "link"]

\* PipeRecordSet.addRecord(record, uniqueRecord=unique, options)
addRecord(rows, self, record, unique, options) ==
    IF ~validRecord(record) THEN [rows |-> rows, ret |-> "None"]
    ELSE IF ~self.pipe THEN [rows |-> rows, ret |-> "None"]
    ELSE IF unique /\ selectFirst(rows, QueryAnd(QueryEq("source", self.source),
                                                 QueryEq("target", record)))
         THEN [rows |-> rows, ret |-> "None"]
    ELSE [rows |-> commitLink(rows, [source |-> self.source, target |-> record,
                                     options |-> options]),
          ret |-> "link"]

\* the query of removeRecord without its source condition
removeRecordQueryAnySource(self, record, options) ==
    QueryAndOptions(QueryEq("target", record), options)

\* the query removeRecord builds
removeRecordQuery(self, record, options) ==
    QueryAndOptions(QueryAnd(QueryEq("source", self.source), QueryEq("target", record)),
                    options)

\* the query clear builds
clearQuery(self, where, options) ==
    QueryAndOptions(QueryAndWhere(QueryEq("source", self.source), where), options)

\* the query remove builds
removeQuery(self, options) == QueryAndOptions(QueryEq("source", self.source), options)

NoPipeCall ==
    [op |-> "none", self |-> [source |-> 0, pipe |-> FALSE], record |-> 0, unique |-> FALSE,
     options |-> {}, where |-> [none |-> TRUE, conds |-> {}], had |-> FALSE, removed |-> 0,
     ret |-> "None"]

PipeInit ==
    /\ pipeRows = [row \in RowKinds |-> 0]
    /\ entityRows = [source |-> Sources, target |-> Targets]
    /\ pipeLast = NoPipeCall

PipeIdle == PipeInit

\* set.addRecord(record, uniqueRecord=unique, options)
AddRecord(self, record, unique, options) ==
    /\ LET out == addRecord(pipeRows, self, record, unique, options) IN
        /\ RowCount(out.rows) <= MaxRows
        /\ pipeRows' = out.rows
        /\ pipeLast' = [NoPipeCall EXCEPT
               !.op = "addRecord", !.self = self, !.record = record, !.unique = unique,
               !.options = options,
               !.had = selectFirst(pipeRows, QueryAnd(QueryEq("source", self.source),
                                                      QueryEq("target", record))),
               !.ret = out.ret]
    /\ UNCHANGED entityRows
    /\ PipeStep

\* what removeRecord, clear and remove have in common once the query is built:
\* pipe.select(where = q).remove()
RemoveSelected(call, q) ==
    LET rows == IF call.self.pipe THEN selectRemove(pipeRows, q) ELSE pipeRows IN
    /\ pipeRows' = rows
    /\ pipeLast' = [call EXCEPT !.removed = RowCount(pipeRows) - RowCount(rows),
                                !.ret = "count"]
    /\ UNCHANGED entityRows

\* set.removeRecord(record, options)
RemoveRecord(self, record, options) ==
    /\ LET call == [NoPipeCall EXCEPT !.op = "removeRecord", !.self = self,
                                      !.record = record, !.options = options]
       IN IF ~validRecord(record)
          THEN /\ pipeLast' = [call EXCEPT !.ret = "0"]
               /\ UNCHANGED <<pipeRows, entityRows>>
          ELSE RemoveSelected(call, removeRecordQuery(self, record, options))
    /\ PipeStep

\* set.clear(where=where, options)
Clear(self, where, options) ==
    /\ RemoveSelected([NoPipeCall EXCEPT !.op = "clear", !.self = self, !.where = where,
                                         !.options = options],
                      clearQuery(self, where, options))
    /\ PipeStep

\* set.remove(options)
Remove(self, options) ==
    /\ RemoveSelected([NoPipeCall EXCEPT !.op = "remove", !.self = self,
                                         !.options = options],
                      removeQuery(self, options))
    /\ PipeStep

PipeNext ==
    \/ \E self \in PipeSets, record \in Records, unique \in BOOLEAN, options \in PipeOptions :
          AddRecord(self, record, unique, options)
    \/ \E self \in PipeSets, record \in Records, options \in PipeOptions :
          RemoveRecord(self, record, options)
    \/ \E self \in PipeSets, where \in PipeWheres, options \in PipeOptions :
          Clear(self, where, options)
    \/ \E self \in PipeSets, options \in PipeOptions : Remove(self, options)

(***************************************************************************)
(* Context (orb/core/context.py): the options of a context.  raw_values    *)
(* and keyword arguments are functions from option names to values.        *)
(***************************************************************************)
\* Context.Defaults, for the options the runs pass
Defaults ==
    [columns |-> PyNone, distinct |-> PyBool(FALSE), inflated |-> PyBool(TRUE),
     limit |-> PyNone, namespace |-> PyStr(""), page |-> PyNone, pageSize |-> PyNone,
     scope |-> PyNone, start |-> PyNone, where |-> PyNone]

UnhashableOptions == {"scope"}

\* the values a run passes for an option
OptionValues(k) ==
    CASE k = "columns" ->
             {PyNone} \cup {PyList(l) : l \in UNION {[1 .. n -> {"a", "b"}] : n \in 0 .. 2}}
      [] k = "distinct" -> {PyBool(FALSE), PyBool(TRUE)}
      [] k = "inflated" -> {PyBool(FALSE), PyBool(TRUE)}
      [] k = "limit" -> {PyInt(3)}
      [] k = "namespace" -> {PyStr(""), PyStr("ns")}
      [] k = "page" -> {PyInt(2)}
      [] k = "pageSize" -> {PyInt(2)}
      [] k = "scope" -> {PyStr("s1"), PyStr("s2")}
      [] k = "start" -> {PyInt(4)}
      [] k = "where" -> {PyNone, PyQuery(<<>>), PyQuery(<<"A">>), PyQuery(<<"B">>),
                         PyQuery(<<"D">>)}

\* the keyword arguments over a set of option names
KwdsOver(names) ==
    UNION {{kwds \in [keys -> UNION {OptionValues(k) : k \in keys}] :
               \A k \in keys : kwds[k] \in OptionValues(k)} : keys \in SUBSET names}

\* the empty dict
EmptyDict == [k \in {} |-> PyNone]

\* d.get(k): the value, None when absent
DictGet(d, k) == IF k \in DOMAIN d THEN d[k] ELSE PyNone

\* d[k] = v
DictSet(d, k, v) == [x \in DOMAIN d \cup {k} |-> IF x = k THEN v ELSE d[x]]

\* d.setdefault(k, v) for every item (k, v) of other whose key is not ignored
DictSetDefaults(d, other, ignore) ==
    [x \in DOMAIN d \cup (DOMAIN other \ ignore) |-> IF x \in DOMAIN d THEN d[x] ELSE other[x]]

NoContext == [none |-> TRUE, raw |-> EmptyDict]

ContextOf(raw) == [none |-> FALSE, raw |-> raw]

\* x or y
PyOr(x, y) == IF Truthy(x) THEN x ELSE y

\* Context.__getattr__(key)
getattr(raw, key) == PyOr(DictGet(raw, key), Defaults[key])

\* q &= other, for other None or a query: a null side gives the other side
QAnd(q, other) ==
    IF other.t = "NoneType" THEN q ELSE PyQuery(q.v \o other.v)

\* others = [kwds.pop('context', None), self.defaultContext()], the other way round
OthersDefaultFirst(source, default) == <<default, source>>

\* others = [kwds.pop('context', None), self.defaultContext()]
Others(source, default) == <<source, default>>

\* the where of other and of kwds, with the one of kwds kept when there is one
MergeWhereKeep(kwds, where) ==
    IF "where" \in DOMAIN kwds THEN kwds ELSE DictSet(kwds, "where", where)

\* q = orb.Query(); q &= where; q &= kwds.get('where'); kwds['where'] = q
MergeWhere(kwds, where) ==
    DictSet(kwds, "where", QAnd(QAnd(PyQuery(<<>>), where), DictGet(kwds, "where")))

\* columns + [col for col in kwds.get('columns', []) if not col in columns]; the
\* iteration raises TypeError when kwds holds None for columns
MergeColumns(kwds, columns) ==
    LET given == IF "columns" \in DOMAIN kwds THEN kwds["columns"] ELSE PyList(<<>>)
        IsIn(col) == \E i \in 1 .. Len(columns.v) : columns.v[i] = col
    IN IF given.t # "list" THEN [exc |-> "TypeError", raw |-> kwds]
       ELSE [exc |-> "",
             raw |-> DictSet(kwds, "columns",
                             PyList(columns.v \o SelectSeq(given.v, LAMBDA col : ~IsIn(col))))]

\* one turn of the loop of Context.__init__ over others
InheritFrom(kwds, other) ==
    IF other.none THEN [exc |-> "", raw |-> kwds]
    ELSE LET filled == DictSetDefaults(kwds, other.raw, {"columns", "where"})
             where == getattr(other.raw, "where")
             merged == IF where # PyNone THEN MergeWhere(filled, where) ELSE filled
             columns == getattr(other.raw, "columns")
         IN IF columns # PyNone THEN MergeColumns(merged, columns)
            ELSE [exc |-> "", raw |-> merged]

\* Context.__init__(context=source, kwds) in a thread whose default context is default
ContextInit(kwds, source, default) ==
    LET others == Others(source, default)
        first == InheritFrom(kwds, others[1])
    IN IF first.exc # "" THEN first ELSE InheritFrom(first.raw, others[2])

\* Context.limit
limit(raw) == PyOr(DictGet(raw, "pageSize"), DictGet(raw, "limit"))

\* Context.start; the product raises TypeError when limit is None
start(raw) ==
    IF DictGet(raw, "page") # PyNone
    THEN IF limit(raw).t = "int"
         THEN [exc |-> "", value |-> PyInt((DictGet(raw, "page").v - 1) * limit(raw).v)]
         ELSE [exc |-> "TypeError", value |-> PyNone]
    ELSE [exc |-> "", value |-> DictGet(raw, "start")]

\* the addresses a generator object can be created at
Addresses == {1, 2}

\* Context.__hash__: the hash of the generator object the expression creates, which
\* is the object's address; the generator is not run
ContextHash(raw, address) == address

NoBuild == [built |-> FALSE, exc |-> "", raw |-> EmptyDict, source |-> NoContext]

NoRead == [op |-> "none", key |-> "", exc |-> "", value |-> PyNone]

OptionsInitCommon ==
    /\ optDefault = NoContext
    /\ optSource = NoContext
    /\ optKwds = EmptyDict
    /\ optNew = NoBuild
    /\ optLast = NoRead

OptionsIdle == optNames = {} /\ OptionsInitCommon

\* with Context(kwds): in a thread with no default context
PushDefault ==
    /\ ~optNew.built
    /\ optDefault.none
    /\ \E kwds \in KwdsOver(optNames) :
          optDefault' = ContextOf(ContextInit(kwds, NoContext, NoContext).raw)
    /\ UNCHANGED <<optNames, optSource, optKwds, optNew, optLast>>
    /\ OptionsStep

\* the end of the with block
PopDefault ==
    /\ ~optNew.built
    /\ ~optDefault.none
    /\ optDefault' = NoContext
    /\ UNCHANGED <<optNames, optSource, optKwds, optNew, optLast>>
    /\ OptionsStep

\* source = Context(kwds)
BuildSource ==
    /\ ~optNew.built
    /\ \E kwds \in KwdsOver(optNames) :
          LET out == ContextInit(kwds, NoContext, optDefault) IN
          /\ out.exc = ""
          /\ optSource' = ContextOf(out.raw)
    /\ UNCHANGED <<optNames, optDefault, optKwds, optNew, optLast>>
    /\ OptionsStep

\* Context(kwds) or Context(context=source, kwds)
Build(withSource) ==
    /\ ~optNew.built
    /\ withSource => ~optSource.none
    /\ \E kwds \in KwdsOver(optNames) :
          LET source == IF withSource THEN optSource ELSE NoContext
              out == ContextInit(kwds, source, optDefault)
          IN /\ optNew' = [built |-> TRUE, exc |-> out.exc,
                           raw |-> IF out.exc = "" THEN out.raw ELSE EmptyDict,
                           source |-> source]
             /\ optKwds' = kwds
    /\ UNCHANGED <<optNames, optDefault, optSource, optLast>>
    /\ OptionsStep

\* context.key: the property when the class has one for the name, __getattr__ otherwise
Read(key) ==
    /\ optNew.built /\ optNew.exc = ""
    /\ key \in optNames \cup {"limit", "start"}
    /\ optLast' =
          CASE key = "limit" -> [op |-> "read", key |-> key, exc |-> "",
                                 value |-> limit(optNew.raw)]
            [] key = "start" -> [op |-> "read", key |-> key, exc |-> start(optNew.raw).exc,
                                 value |-> start(optNew.raw).value]
            [] OTHER -> [op |-> "read", key |-> key, exc |-> "",
                         value |-> getattr(optNew.raw, key)]
    /\ UNCHANGED <<optNames, optDefault, optSource, optKwds, optNew>>
    /\ OptionsStep

\* context == source, context != source: __eq__ and __ne__ compare two hashes
Compare(op, address, otherAddress) ==
    /\ optNew.built /\ optNew.exc = ""
    /\ ~optSource.none
    /\ LET same == ContextHash(optNew.raw, address) = ContextHash(optSource.raw, otherAddress)
       IN optLast' = [op |-> op, key |-> "", exc |-> "",
                      value |-> PyBool(IF op = "eq" THEN same ELSE ~same)]
    /\ UNCHANGED <<optNames, optDefault, optSource, optKwds, optNew>>
    /\ OptionsStep

\* hash(context)
Hash(address) ==
    /\ optNew.built /\ optNew.exc = ""
    /\ optLast' = [op |-> "hash", key |-> "", exc |-> "",
                   value |-> PyInt(ContextHash(optNew.raw, address))]
    /\ UNCHANGED <<optNames, optDefault, optSource, optKwds, optNew>>
    /\ OptionsStep

\* the context goes out of use; the thread constructs another
Discard ==
    /\ optNew.built
    /\ optKwds' = EmptyDict
    /\ optNew' = NoBuild
    /\ optLast' = NoRead
    /\ UNCHANGED <<optNames, optDefault, optSource>>
    /\ OptionsStep

OptionsNext ==
    \/ PushDefault
    \/ PopDefault
    \/ BuildSource
    \/ \E withSource \in BOOLEAN : Build(withSource)
    \/ \E key \in DOMAIN Defaults : Read(key)
    \/ \E op \in {"eq", "ne"}, address \in Addresses, otherAddress \in Addresses :
          Compare(op, address, otherAddress)
    \/ \E address \in Addresses : Hash(address)
    \/ Discard

(***************************************************************************)
(* Context.expand and Context.expandtree (orb/core/context.py).  A str is  *)
(* the sequence of its characters; a dict is a function from its keys to   *)
(* their values.                                                           *)
(***************************************************************************)
MaxText == 3

RecursionLimit == 3

TextAlphabet == {"a", "b", ".", ","}

Texts == UNION {[1 .. n -> TextAlphabet] : n \in 0 .. MaxText}

PyText(text) == [t |-> "text", v |-> text]

PySet(members) == [t |-> "set", v |-> members]

PyDict(items) == [t |-> "dict", v |-> items]

\* the dict with one key
OneKey(key, value) == [k \in {key} |-> value]

\* the dict with the keys a and b
TwoKeys(valueA, valueB) == [k \in {<<"a">>, <<"b">>} |-> IF k = <<"a">> THEN valueA ELSE valueB]

\* the nested mappings passed as expand
ExpandDicts ==
    {EmptyDict,
     OneKey(<<"a">>, EmptyDict),
     OneKey(<<"a">>, OneKey(<<"b">>, EmptyDict)),
     OneKey(<<"a">>, OneKey(<<"b">>, OneKey(<<"a">>, EmptyDict))),
     TwoKeys(EmptyDict, EmptyDict),
     TwoKeys(OneKey(<<"b">>, EmptyDict), EmptyDict),
     OneKey(<<"a">>, TwoKeys(EmptyDict, EmptyDict))}

\* the sets of paths passed as expand
ExpandSets ==
    {{}, {<<"a">>}, {<<"a">>, <<"b">>}, {<<"a">>, <<"a", ".", "b">>},
     {<<"b", ".", "a">>, <<"a", ".", "b">>, <<"b">>}}

\* the values passed as expand
ExpandValues ==
    {PyNone} \cup {PyText(text) : text \in Texts} \cup {PySet(members) : members \in ExpandSets}
        \cup {PyDict(items) : items \in ExpandDicts}

\* the members of a set or the keys of a dict in the order the iteration gives them
RECURSIVE IterationOrder(_)
IterationOrder(S) ==
    IF S = {} THEN <<>> ELSE LET x == CHOOSE y \in S : TRUE IN <<x>> \o IterationOrder(S \ {x})

\* the index of the first sep of text from place i on, 0 when there is none
RECURSIVE FirstOf(_, _, _)
FirstOf(text, sep, i) ==
    IF i > Len(text) THEN 0 ELSE IF text[i] = sep THEN i ELSE FirstOf(text, sep, i + 1)

\* the index of the last sep of text up to place i, 0 when there is none
RECURSIVE LastOf(_, _, _)
LastOf(text, sep, i) ==
    IF i < 1 THEN 0 ELSE IF text[i] = sep THEN i ELSE LastOf(text, sep, i - 1)

\* text.split(sep)
RECURSIVE SplitOn(_, _)
SplitOn(text, sep) ==
    LET i == FirstOf(text, sep, 1) IN
    IF i = 0 THEN <<text>>
    ELSE <<SubSeq(text, 1, i - 1)>> \o SplitOn(SubSeq(text, i + 1, Len(text)), sep)

\* text.rpartition(sep): head and rest around the last sep, '' and text without one
rpartition(text, sep) ==
    LET i == LastOf(text, sep, Len(text)) IN
    IF i = 0 THEN [name |-> <<>>, remain |-> text]
    ELSE [name |-> SubSeq(text, 1, i - 1), remain |-> SubSeq(text, i + 1, Len(text))]

\* [entry for item in lists for entry in item]
RECURSIVE Flatten(_)
Flatten(lists) == IF lists = <<>> THEN <<>> ELSE Head(lists) \o Flatten(Tail(lists))

\* expand_string without the key itself: the paths below the key only
RECURSIVE expand_string_below(_, _)
expand_string_below(key, children) ==
    LET keys == IterationOrder(DOMAIN children)
        below == Flatten([i \in 1 .. Len(keys) |->
                             <<keys[i]>> \o expand_string_below(keys[i], children[keys[i]])])
    IN [i \in 1 .. Len(below) |-> key \o <<".">> \o below[i]]

\* expand_string(key, children) of Context.expand
RECURSIVE expand_string(_, _)
expand_string(key, children) ==
    LET keys == IterationOrder(DOMAIN children)
        below == Flatten([i \in 1 .. Len(keys) |-> expand_string(keys[i], children[keys[i]])])
    IN <<key>> \o [i \in 1 .. Len(below) |-> key \o <<".">> \o below[i]]

\* Context.expand
expand(out) ==
    CASE out.t = "set" -> PyList(IterationOrder(out.v))
      [] out.t = "text" -> PyList(SplitOn(out.v, ","))
      [] out.t = "dict" ->
             LET keys == IterationOrder(DOMAIN out.v) IN
             PyList(Flatten([i \in 1 .. Len(keys) |-> expand_string(keys[i], out.v[keys[i]])]))
      [] OTHER -> out

\* tree.setdefault(name, {})
TreeSetDefault(tree, name) ==
    IF name \in DOMAIN tree THEN tree
    ELSE [k \in DOMAIN tree \cup {name} |-> IF k = name THEN EmptyDict ELSE tree[k]]

\* build_tree(tree, name) of Context.expandtree, depth calls deep; the interpreter
\* raises RuntimeError at its recursion limit
RECURSIVE build_tree(_, _, _)
build_tree(tree, branch, depth) ==
    IF depth > RecursionLimit THEN [exc |-> "RuntimeError", tree |-> tree]
    ELSE LET parts == rpartition(branch, ".")
             grown == TreeSetDefault(tree, parts.name)
         IN IF parts.remain # <<>>
            THEN LET sub == build_tree(grown[parts.name], parts.remain, depth + 1) IN
                 IF sub.exc # "" THEN [exc |-> sub.exc, tree |-> grown]
                 ELSE [exc |-> "", tree |-> [grown EXCEPT ![parts.name] = sub.tree]]
            ELSE [exc |-> "", tree |-> grown]

\* for branch in expand: build_tree(tree, branch)
RECURSIVE BuildAll(_, _)
BuildAll(tree, branches) ==
    IF branches = <<>> THEN [exc |-> "", tree |-> tree]
    ELSE LET first == build_tree(tree, Head(branches), 1) IN
         IF first.exc # "" THEN first ELSE BuildAll(first.tree, Tail(branches))

\* Context.expandtree
expandtree(out) ==
    LET paths == expand(out) IN
    IF ~Truthy(paths) THEN [exc |-> "", tree |-> EmptyDict] ELSE BuildAll(EmptyDict, paths.v)

NoExpandCall == [op |-> "none", input |-> PyNone, exc |-> "", output |-> PyNone, tree |-> EmptyDict]

ExpandInit ==
    /\ expValue = PyNone
    /\ expLast = NoExpandCall

ExpandIdle == ExpandInit

\* context = Context(expand=value)
SetExpand(value) ==
    /\ expValue' = value
    /\ expLast' = NoExpandCall
    /\ ExpandStep

\* context.expand
Expand ==
    /\ expLast' = [NoExpandCall EXCEPT !.op = "expand", !.input = expValue,
                                       !.output = expand(expValue)]
    /\ UNCHANGED expValue
    /\ ExpandStep

\* context = Context(expand=context.expand)
Renormalize ==
    /\ expValue' = expand(expValue)
    /\ expLast' = [NoExpandCall EXCEPT !.op = "renormalize", !.input = expValue,
                                       !.output = expand(expand(expValue))]
    /\ ExpandStep

\* context.expandtree()
ExpandTree ==
    /\ expLast' = [NoExpandCall EXCEPT !.op = "expandtree", !.input = expValue,
                                       !.output = expand(expValue),
                                       !.exc = expandtree(expValue).exc,
                                       !.tree = IF expandtree(expValue).exc = ""
                                                THEN expandtree(expValue).tree ELSE EmptyDict]
    /\ UNCHANGED expValue
    /\ ExpandStep

ExpandNext ==
    \/ \E value \in ExpandValues : SetExpand(value)
    \/ Expand
    \/ Renormalize
    \/ ExpandTree

(***************************************************************************)
(* PipeRecordSet.addRecord (orb/data/piperecordset.py) called by threads   *)
(* on record sets over the same pipe table.  A call is two accesses of the *)
(* table, the look for an existing link and the commit of the new one;     *)
(* nothing in addRecord keeps another thread's access from coming between  *)
(* them.                                                                   *)
(***************************************************************************)
PipeThreads == {1, 2}

NoAddRecord ==
    [pc |-> "idle", self |-> [source |-> 0, pipe |-> FALSE], record |-> 0,
     unique |-> FALSE, options |-> {}, ret |-> "None"]

RaceIdle == pipeCalls = [t \in PipeThreads |-> NoAddRecord]

\* the threads that have looked and are about to commit their link
Committing == {t \in PipeThreads : pipeCalls[t].pc = "commit"}

\* addRecord up to its look: lines 55 to 71
Look(t, self, record, unique, options) ==
    /\ pipeCalls[t].pc = "idle"
    /\ RowCount(pipeRows) + Cardinality(Committing) < MaxRows
    /\ LET call == [NoAddRecord EXCEPT !.self = self, !.record = record,
                                       !.unique = unique, !.options = options]
           returns ==
               \/ ~validRecord(record)
               \/ ~self.pipe
               \/ /\ unique
                  /\ selectFirst(pipeRows, QueryAnd(QueryEq("source", self.source),
                                                    QueryEq("target", record)))
       IN pipeCalls' = [pipeCalls EXCEPT
                           ![t] = [call EXCEPT !.pc = IF returns THEN "done" ELSE "commit"]]
    /\ UNCHANGED pipeVars
    /\ RaceStep

\* the rest of addRecord: link = pipe(**options); link.commit(); return link
CommitLink(t) ==
    /\ pipeCalls[t].pc = "commit"
    /\ pipeRows' = commitLink(pipeRows, [source |-> pipeCalls[t].self.source,
                                         target |-> pipeCalls[t].record,
                                         options |-> pipeCalls[t].options])
    /\ pipeCalls' = [pipeCalls EXCEPT ![t].pc = "done", ![t].ret = "link"]
    /\ UNCHANGED <<entityRows, pipeLast>>
    /\ RaceStep

\* the thread has the result and is free for its next call
Returned(t) ==
    /\ pipeCalls[t].pc = "done"
    /\ pipeCalls' = [pipeCalls EXCEPT ![t] = NoAddRecord]
    /\ UNCHANGED pipeVars
    /\ RaceStep

\* the threads pass uniqueRecord=True
RaceNext ==
    \/ \E t \in PipeThreads, self \in PipeSets, record \in Records, options \in PipeOptions :
          Look(t, self, record, TRUE, options)
    \/ \E t \in PipeThreads : CommitLink(t)
    \/ \E t \in PipeThreads : Returned(t)

(***************************************************************************)
(* MSSQLConnection._open and _closed                                       *)
(* (orb/core/connection_types/sql/mssql/mssqlconnection.py): the native    *)
(* handles of a database.  A handle is open from the connect that made it *)
(* until it is closed or the server drops the connection.                  *)
(***************************************************************************)
MaxHandles == 3

Handles == 1 .. MaxHandles

NoHandleCall == [op |-> "none", native |-> 0, state |-> "none", exc |-> "", answer |-> FALSE]

HandleIdle ==
    /\ nativeState = [h \in Handles |-> "none"]
    /\ connLast = NoHandleCall

\* MSSQLConnection._closed(native)
_closed(native) == FALSE

\* MSSQLConnection._open(db): pymssql.connect gives a handle or raises pymssql.Error
Open(h, connects) ==
    /\ nativeState[h] = "none"
    /\ \A g \in Handles : g < h => nativeState[g] # "none"
    /\ nativeState' = IF connects THEN [nativeState EXCEPT ![h] = "open"] ELSE nativeState
    /\ connLast' = [NoHandleCall EXCEPT
                       !.op = "_open",
                       !.native = IF connects THEN h ELSE 0,
                       !.state = IF connects THEN "open" ELSE "none",
                       !.exc = IF connects THEN "" ELSE "ConnectionFailed"]
    /\ HandleStep

\* native.close()
Close(h) ==
    /\ nativeState[h] = "open"
    /\ nativeState' = [nativeState EXCEPT ![h] = "closed"]
    /\ UNCHANGED connLast
    /\ HandleStep

\* the server or the network drops the connection of an open handle
Lose(h) ==
    /\ nativeState[h] = "open"
    /\ nativeState' = [nativeState EXCEPT ![h] = "lost"]
    /\ UNCHANGED connLast
    /\ HandleStep

\* a caller asks _closed(native) of a handle _open has returned
Closed(h) ==
    /\ nativeState[h] # "none"
    /\ connLast' = [NoHandleCall EXCEPT !.op = "_closed", !.native = h,
                                        !.state = nativeState[h],
                                        !.answer = _closed(h)]
    /\ UNCHANGED nativeState
    /\ HandleStep

HandleNext ==
    \/ \E h \in Handles, connects \in BOOLEAN : Open(h, connects)
    \/ \E h \in Handles : Close(h)
    \/ \E h \in Handles : Lose(h)
    \/ \E h \in Handles : Closed(h)

(***************************************************************************)
(* Column.fromJSON and loadJSON (orb/core/column.py,                       *)
(* orb/schema/column_types/reference.py).  A column is the record of its   *)
(* private attributes, each a Python value; a serialized definition is a   *)
(* dict.                                                                   *)
(***************************************************************************)
\* RemoveAction.Block
Block == 4

\* the names Column.registerAddon has been called with
RegisteredTypes == {"Reference"}

\* the type names a definition can carry
TypeNames == {"Reference", "Geometry"}

\* Column.Index(name, cached, timeout)
ColumnIndex(name, cached, timeout) ==
    [t |-> "Index", v |-> [name |-> name, cached |-> cached, timeout |-> timeout]]

ColumnIndexes == {PyNone, ColumnIndex("by_user", TRUE, 60)}

\* ReferenceColumn(**kwds): Column.__init__ and ReferenceColumn.__init__
ReferenceColumn(name, field) ==
    [type |-> "Reference", name |-> name, field |-> field, display |-> PyNone,
     index |-> PyNone, flags |-> PyInt(0), default |-> PyNone,
     defaultOrder |-> PyStr("asc"), reference |-> PyStr(""),
     removeAction |-> PyInt(Block), reverse |-> PyNone]

\* the serialized definition of a column: its type name, name, field, flags,
\* default, defaultOrder and index, the index as the dict of its attributes
toJSON(col) ==
    [type |-> PyStr(col.type), name |-> col.name, field |-> col.field,
     flags |-> col.flags, default |-> col.default, defaultOrder |-> col.defaultOrder,
     index |-> IF col.index.t = "Index" THEN PyDict(col.index.v) ELSE PyNone]

\* Column.loadJSON(jdata)
Column_loadJSON(self, jdata) ==
    LET index == DictGet(jdata, "index") IN
    [self EXCEPT
        !.name = jdata["name"],
        !.field = jdata["field"],
        !.display = PyOr(DictGet(jdata, "display"), self.display),
        !.flags = PyOr(DictGet(jdata, "flags"), self.flags),
        !.defaultOrder = PyOr(DictGet(jdata, "defaultOrder"), self.defaultOrder),
        !.default = PyOr(DictGet(jdata, "default"), self.default),
        !.index = IF index.t = "dict" /\ DOMAIN index.v # {}
                  THEN ColumnIndex(index.v.name, index.v.cached, index.v.timeout)
                  ELSE self.index]

\* ReferenceColumn.loadJSON(jdata); a definition carries no reverse
loadJSON(self, jdata) ==
    LET loaded == Column_loadJSON(self, jdata) IN
    [loaded EXCEPT
        !.reference = PyOr(DictGet(jdata, "reference"), self.reference),
        !.removeAction = PyOr(DictGet(jdata, "removeAction"), self.removeAction)]

NoLoaded ==
    [kind |-> "none", type |-> PyNone, exc |-> "", column |-> ReferenceColumn(PyNone, PyNone)]

\* Column.fromJSON(jdata)
fromJSON(jdata) ==
    LET cls_type == DictGet(jdata, "type") IN
    IF cls_type.t # "str" \/ cls_type.v \notin RegisteredTypes
    THEN [NoLoaded EXCEPT !.kind = "raise", !.type = cls_type, !.exc = "InvalidColumnType"]
    ELSE [NoLoaded EXCEPT !.kind = "column", !.type = cls_type,
                          !.column = loadJSON(ReferenceColumn(PyNone, PyNone), jdata)]

JsonInitCommon ==
    /\ jsData = PyNone
    /\ jsLoaded = NoLoaded

\* a reference column as a schema declares it
JsonInit ==
    /\ jsColumn = ReferenceColumn(PyStr("user"), PyStr("user_id"))
    /\ JsonInitCommon

JsonIdle == JsonInit

\* Column.setDefault(default)
SetDefault(default) ==
    /\ jsColumn.default # default
    /\ jsColumn' = [jsColumn EXCEPT !.default = default]
    /\ jsData' = PyNone
    /\ jsLoaded' = NoLoaded
    /\ JsonStep

\* Column.setFlag(flag, state)
SetFlag(flag, state) ==
    /\ testFlag(jsColumn.flags.v, flag) # state
    /\ jsColumn' = [jsColumn EXCEPT !.flags = PyInt(IF state THEN @.v + flag ELSE @.v - flag)]
    /\ jsData' = PyNone
    /\ jsLoaded' = NoLoaded
    /\ JsonStep

\* Column.setIndex(index)
SetIndex(index) ==
    /\ jsColumn.index # index
    /\ jsColumn' = [jsColumn EXCEPT !.index = index]
    /\ jsData' = PyNone
    /\ jsLoaded' = NoLoaded
    /\ JsonStep

\* the column is serialized
Serialize ==
    /\ jsData = PyNone
    /\ jsData' = PyDict(toJSON(jsColumn))
    /\ UNCHANGED <<jsColumn, jsLoaded>>
    /\ JsonStep

\* Column.fromJSON on the definition, or on the definition under another type name
Deserialize(typeName) ==
    /\ jsData # PyNone
    /\ jsLoaded' = fromJSON([jsData.v EXCEPT !.type = PyStr(typeName)])
    /\ UNCHANGED <<jsColumn, jsData>>
    /\ JsonStep

JsonNext ==
    \/ \E default \in ColumnValues : SetDefault(default)
    \/ \E flag \in {Required, Unique}, state \in BOOLEAN : SetFlag(flag, state)
    \/ \E index \in ColumnIndexes : SetIndex(index)
    \/ Serialize
    \/ \E typeName \in TypeNames : Deserialize(typeName)

(***************************************************************************)
(* The SQL statement generators                                            *)
(* (orb/core/connection_types/sql/mssql/statements,                        *)
(* .../postgres/statements/alter.py,                                       *)
(* .../postgresql/statements/create_index.py) called for one model, whose  *)
(* table is "users", and one record of it.                                 *)
(*                                                                         *)
(* A generated text is the sequence of its blocks.  A block is a sequence  *)
(* of fragments under a guard, the table whose absence IF NOT EXISTS       *)
(* tests, "" for no guard.  A fragment has an operation, a table, a body   *)
(* (the entries of a column list, each the words before the quoted field   *)
(* and the field), a key, the table it references, the assignments of a    *)
(* SET (field and placeholder), the id placeholder and a locale.  A        *)
(* placeholder %(key)s is its key, the pair of a field and a random        *)
(* suffix; a parameter mapping is a function from keys to values.          *)
(***************************************************************************)
\* Column.Flags: the names of the enum, in order
FlagNames ==
    <<"ReadOnly", "Private", "Polymorphic", "Primary", "AutoIncrement", "Required", "Unique",
      "Encrypted", "Searchable", "Translatable", "CaseSensitive", "Virtual", "Queryable">>

\* whether Column.Flags.<name> is an attribute of the enum; for any other name the
\* attribute access raises AttributeError
HasFlag(name) == \E i \in DOMAIN FlagNames : FlagNames[i] = name

\* Column.Flags.<name>: 2 ^ index
FlagsAttr(name) == 2 ^ ((CHOOSE i \in DOMAIN FlagNames : FlagNames[i] = name) - 1)

Table == "users"

\* "{table}_i18n"
I18nTable == "users_i18n"

\* "{table}_id"
TableId == "users_id"

Locales == {"en", "fr"}

\* the order in which a dict keyed by locale is walked
LocaleOrder == <<"en", "fr">>

\* os.urandom(4).encode('hex')
Suffixes == {"0a", "ff"}

\* the most draws of os.urandom one call makes
Draws == 1 .. 4

StColumn(field, flags, reference) ==
    [field |-> field, flags |-> flags, reference |-> reference]

IdColumn == StColumn("id", Primary + AutoIncrement, FALSE)

\* the model's column "name": none, a standard one, a reference, a virtual one
NameChoices ==
    {<<>>, <<StColumn("name", Required, FALSE)>>, <<StColumn("name", 0, TRUE)>>,
     <<StColumn("name", FlagsAttr("Virtual"), FALSE)>>}

\* the model's column "title": none, a translatable one, a virtual one
TitleChoices ==
    {<<>>, <<StColumn("title", FlagsAttr("Translatable"), FALSE)>>,
     <<StColumn("title", FlagsAttr("Virtual"), FALSE)>>}

\* schema().columns(recurse=False).values() of a table, which leaves the id column to
\* the parent when the model inherits, and a model that is neither table nor view
Schemas ==
    {[type |-> "Table", inherits |-> h,
      columns |-> (IF h THEN <<>> ELSE <<IdColumn>>) \o n \o t] :
        h \in BOOLEAN, n \in NameChoices, t \in TitleChoices}
    \cup {[type |-> "Model", inherits |-> FALSE, columns |-> <<IdColumn>>]}

\* the columns a record of the model has values for
ValueColumns(model) == SelectSeq(model.columns, LAMBDA c : c.field # "id")

FieldsOf(columns) == {columns[i].field : i \in DOMAIN columns}

ColumnOf(model, field) ==
    model.columns[CHOOSE i \in DOMAIN model.columns : model.columns[i].field = field]

\* whether the column keeps a value per locale
IsTranslatable(column) == testFlag(column.flags, FlagsAttr("Translatable"))

\* a record of the model as loaded from the database or as constructed
NewRecord(model, isRecord) ==
    [isRecord |-> isRecord, id |-> PyInt(1),
     values |-> [f \in FieldsOf(ValueColumns(model)) |->
                    IF IsTranslatable(ColumnOf(model, f))
                    THEN [l \in {"en"} |-> PyStr("bob")]
                    ELSE [l \in {"-"} |-> PyStr("bob")]],
     changed |-> {}]

\* record.get(column)
recordGet(record, column) ==
    LET value == record.values[column.field] IN
    IF "-" \in DOMAIN value THEN value["-"] ELSE value["en"]

\* record.get(column, locale='all'): the dict of the column's values by locale
recordGetAll(record, column) == record.values[column.field]

\* record.changes(), as the sequence of its keys
changes(record, model) == SelectSeq(model.columns, LAMBDA c : c.field \in record.changed)

NoFrag ==
    [op |-> "", table |-> "", body |-> <<>>, key |-> <<>>, references |-> "", sets |-> <<>>,
     idKey |-> <<>>, locale |-> ""]

Guarded(guard, frags) == [guard |-> guard, frags |-> frags]

Unguarded(frag) == Guarded("", <<frag>>)

Entry(words, field) == [words |-> words, field |-> field]

\* what a generator gives: return sql, data; return sql; raise
Pair(sql, data) == [kind |-> "pair", sql |-> sql, data |-> data, exc |-> ""]

Text(sql) == [kind |-> "text", sql |-> sql, data |-> EmptyDict, exc |-> ""]

Raised(exc) == [kind |-> "raise", sql |-> <<>>, data |-> EmptyDict, exc |-> exc]

\* ADD_COLUMN.__call__(column): u'ADD COLUMN "{field}" {type} {flags}', {}
ADD_COLUMN(column) ==
    Pair(<<Unguarded([NoFrag EXCEPT !.op = "ADD COLUMN",
                                    !.body = <<Entry(<<"ADD", "COLUMN">>, column.field)>>])>>,
         EmptyDict)

\* ADD_COLUMN(col)[0]
ColumnText(column) == ADD_COLUMN(column).sql[1].frags[1].body[1]

\* text.replace(old, ''), for an old at the start of the text
replace(entry, old) ==
    IF Len(entry.words) >= Len(old) /\ SubSeq(entry.words, 1, Len(old)) = old
    THEN [entry EXCEPT !.words = SubSeq(@, Len(old) + 1, Len(@))]
    ELSE entry

\* the loop that divides columns between standard and translatable, in CREATE and in
\* the two ALTERs: the test for Flags.Virtual is there or not, the test for a
\* reference column is there and applies or not
RECURSIVE Divide(_, _, _)
Divide(columns, testsVirtual, skipsReferences) ==
    IF columns = <<>> THEN [exc |-> "", add_i18n |-> <<>>, add_standard |-> <<>>]
    ELSE LET col == Head(columns)
             rest == Divide(Tail(columns), testsVirtual, skipsReferences)
         IN IF testsVirtual /\ testFlag(col.flags, FlagsAttr("Virtual")) THEN rest
            ELSE IF skipsReferences /\ col.reference THEN rest
            ELSE IF ~HasFlag("I18n") THEN [rest EXCEPT !.exc = "AttributeError"]
            ELSE IF testFlag(col.flags, FlagsAttr("I18n"))
                 THEN [rest EXCEPT !.add_i18n = <<col>> \o @]
                 ELSE [rest EXCEPT !.add_standard = <<col>> \o @]

\* the entries "locale" and "{table}_id" of an i18n table
I18nHead == <<Entry(<<>>, "locale"), Entry(<<>>, TableId)>>

\* CREATE._createTable(model, owner, includeReferences)
_createTable(model, includeReferences) ==
    LET div == Divide(model.columns, TRUE, ~includeReferences)
        add_standard == div.add_standard
        add_i18n == div.add_i18n
        cmd_body == [i \in 1 .. Len(add_standard) |->
                        replace(ColumnText(add_standard[i]), <<"ADD">>)]
                    \o (IF model.inherits THEN <<Entry(<<>>, "__base_id")>> ELSE <<>>)
        hasPcol == ~model.inherits
        primary == [NoFrag EXCEPT !.op = "CREATE TABLE", !.table = Table, !.body = cmd_body,
                                  !.key = IF hasPcol THEN <<IdColumn.field>> ELSE <<>>]
        i18n == [NoFrag EXCEPT
                    !.op = "CREATE TABLE", !.table = I18nTable,
                    !.body = I18nHead \o
                             [i \in 1 .. Len(add_i18n) |->
                                 replace(ColumnText(add_i18n[i]), <<"ADD", "COLUMN">>)],
                    !.references = Table,
                    !.key = <<TableId, "locale">>]
    IN IF div.exc # "" THEN Raised(div.exc)
       ELSE IF add_i18n # <<>> /\ ~hasPcol THEN Raised("NameError")
       ELSE Pair(<<Guarded(Table, <<primary>> \o (IF add_i18n # <<>> THEN <<i18n>> ELSE <<>>))>>,
                 EmptyDict)

\* CREATE.__call__(model, owner, includeReferences), for a model that is no view
CREATE(model, includeReferences) ==
    IF model.type = "Table" THEN _createTable(model, includeReferences)
    ELSE Raised("OrbError")

\* ALTER.__call__(model, add) of the SQL Server back end
ALTER(model, add) ==
    IF model.type # "Table" THEN Raised("OrbError")
    ELSE LET div == Divide(add, TRUE, FALSE)
             add_standard == div.add_standard
             add_i18n == div.add_i18n
             sql == [i \in 1 .. Len(add_standard) |->
                        Unguarded([NoFrag EXCEPT !.op = "ALTER TABLE", !.table = Table,
                                                 !.body = <<ColumnText(add_standard[i])>>])]
             create == [NoFrag EXCEPT !.op = "CREATE TABLE", !.table = I18nTable,
                                      !.body = I18nHead, !.references = Table,
                                      !.key = <<"locale", TableId>>]
             fields == [NoFrag EXCEPT !.op = "ALTER TABLE", !.table = I18nTable,
                                      !.body = [i \in 1 .. Len(add_i18n) |->
                                                   ColumnText(add_i18n[i])]]
         IN IF div.exc # "" THEN Raised(div.exc)
            ELSE Pair(sql \o (IF add_i18n # <<>>
                              THEN <<Guarded(Table, <<create, fields>>)>> ELSE <<>>),
                      EmptyDict)

\* ALTER.__call__(model, add) of the Postgres back end; its ADD COLUMN is taken to
\* give the text the SQL Server one gives
ALTER_postgres(model, add) ==
    IF model.type # "Table" THEN Raised("OrbError")
    ELSE LET div == Divide(add, FALSE, FALSE)
             add_standard == div.add_standard
             add_i18n == div.add_i18n
             standard == [NoFrag EXCEPT !.op = "ALTER TABLE", !.table = Table,
                                        !.body = [i \in 1 .. Len(add_standard) |->
                                                     ColumnText(add_standard[i])]]
             create == [NoFrag EXCEPT !.op = "CREATE TABLE", !.table = I18nTable,
                                      !.body = I18nHead, !.references = Table,
                                      !.key = <<"locale", TableId>>]
             owner == [NoFrag EXCEPT !.op = "OWNER TO", !.table = I18nTable]
             fields == [NoFrag EXCEPT !.op = "ALTER TABLE", !.table = I18nTable,
                                      !.body = [i \in 1 .. Len(add_i18n) |->
                                                   ColumnText(add_i18n[i])]]
         IN IF div.exc # "" THEN Raised(div.exc)
            ELSE Pair((IF add_standard # <<>> THEN <<Unguarded(standard)>> ELSE <<>>)
                      \o (IF add_i18n # <<>>
                          THEN <<Guarded(I18nTable, <<create>>), Unguarded(owner),
                                 Unguarded(fields)>>
                          ELSE <<>>),
                      EmptyDict)

\* CREATE_NAMESPACE.__call__(namespace)
CREATE_NAMESPACE(namespace) ==
    Pair(<<Unguarded([NoFrag EXCEPT !.op = "CREATE SCHEMA", !.table = namespace])>>, EmptyDict)

\* CREATE_INDEX.__call__(index, checkFirst): return cmd
CREATE_INDEX(index, checkFirst) ==
    LET cols == [i \in 1 .. Len(index.columns) |->
                    IF testFlag(index.columns[i].flags, FlagsAttr("CaseSensitive"))
                    THEN Entry(<<>>, index.columns[i].field)
                    ELSE Entry(<<"lower">>, index.columns[i].field)]
        cmd == [NoFrag EXCEPT !.op = IF index.unique THEN "CREATE UNIQUE INDEX"
                                     ELSE "CREATE INDEX",
                              !.table = Table, !.body = cols]
    IN Text(<<Guarded(IF checkFirst THEN index.name ELSE "", <<cmd>>)>>)

\* ENABLE_INTERNALS.__call__(model, enabled), model None or the model
ENABLE_INTERNALS(withModel, enabled) ==
    Pair(<<Unguarded([NoFrag EXCEPT
                         !.op = IF withModel
                                THEN (IF enabled THEN "ENABLE KEYS" ELSE "DISABLE KEYS")
                                ELSE "PRAGMA",
                         !.table = IF withModel THEN Table ELSE ""])>>,
         EmptyDict)

\* the SELECT the back end registers: a text, or no text for a query that can match
\* nothing, and its parameters
SELECT(model, columns, matches) ==
    Pair(IF matches
         THEN <<Unguarded([NoFrag EXCEPT !.op = "SELECT", !.table = Table,
                                         !.body = [i \in 1 .. Len(columns) |->
                                                      Entry(<<>>, columns[i])]])>>
         ELSE <<>>,
         EmptyDict)

\* SELECT_COUNT.__call__(model, context), for context.columns None or a list
SELECT_COUNT(model, context_columns, matches) ==
    LET columns == IF Truthy(context_columns) THEN context_columns.v
                   ELSE <<IdColumn.field>>
        inner == SELECT(model, columns, matches)
    IN IF inner.sql # <<>>
       THEN Pair(<<Unguarded([inner.sql[1].frags[1] EXCEPT !.op = "SELECT COUNT"])>>,
                 inner.data)
       ELSE Pair(inner.sql, inner.data)

\* Column.dbStore(py_value, context)
dbStore(py_value, context) ==
    CASE py_value.t = "list" ->
            \* tuple(self.dbStore(database, x, ...) for x in py_value): the name
            \* database is not defined
            IF py_value.v = <<>> THEN py_value ELSE [t |-> "NameError", v |-> "database"]
      [] py_value.t = "Model" -> PyInt(py_value.v)
      [] OTHER -> py_value

\* the loop of generateCommand over the changed columns: the parameters, the
\* assignments of the standard columns and, by locale, those of the translatable ones,
\* and the draws of os.urandom made
RECURSIVE UpdateValues(_, _, _)
UpdateValues(record, changed, rnd) ==
    IF changed = <<>>
    THEN [exc |-> "", data |-> EmptyDict, standard_values |-> <<>>,
          i18n_values |-> [l \in Locales |-> <<>>], draws |-> 0]
    ELSE LET acc == UpdateValues(record, SubSeq(changed, 1, Len(changed) - 1), rnd)
             column == changed[Len(changed)]
             byLocale == recordGetAll(record, column)
             locales == SelectSeq(LocaleOrder, LAMBDA l : l \in DOMAIN byLocale)
             value_key(n) == <<column.field, rnd[acc.draws + n]>>
             RECURSIVE Bind(_, _)
             Bind(n, data) ==
                 IF n > Len(locales) THEN data
                 ELSE Bind(n + 1, DictSet(data, value_key(n),
                                          dbStore(PyStr("MSSQL"), byLocale[locales[n]])))
         IN IF acc.exc # "" THEN acc
            ELSE IF testFlag(column.flags, FlagsAttr("Virtual")) THEN acc
            ELSE IF ~HasFlag("I18n") THEN [acc EXCEPT !.exc = "AttributeError"]
            ELSE IF testFlag(column.flags, FlagsAttr("I18n"))
                 THEN [acc EXCEPT
                          !.data = Bind(1, acc.data),
                          !.i18n_values =
                              [l \in Locales |->
                                  IF \E n \in DOMAIN locales : locales[n] = l
                                  THEN Append(acc.i18n_values[l],
                                              [field |-> column.field,
                                               key |-> value_key(CHOOSE n \in DOMAIN locales :
                                                                    locales[n] = l)])
                                  ELSE acc.i18n_values[l]],
                          !.draws = @ + Len(locales)]
                 ELSE [acc EXCEPT
                          !.data = DictSet(acc.data, value_key(1),
                                           dbStore(PyStr("MSSQL"), recordGet(record, column))),
                          !.standard_values = Append(@, [field |-> column.field,
                                                         key |-> value_key(1)]),
                          !.draws = @ + 1]

\* UPDATE.generateCommand(record, changes)
generateCommand(record, changed, rnd) ==
    LET acc == UpdateValues(record, changed, rnd)
        id_key == <<"id", rnd[acc.draws + 1]>>
        data == DictSet(acc.data, id_key, record.id)
        standard_sql == [NoFrag EXCEPT !.op = "UPDATE", !.table = Table,
                                       !.sets = acc.standard_values, !.idKey = id_key]
        locales == SelectSeq(LocaleOrder, LAMBDA l : acc.i18n_values[l] # <<>>)
        i18n_sql(locale) == [NoFrag EXCEPT !.op = "UPSERT", !.table = I18nTable,
                                           !.sets = acc.i18n_values[locale],
                                           !.idKey = id_key, !.locale = locale]
    IN IF acc.exc # "" THEN Raised(acc.exc)
       ELSE Pair((IF acc.standard_values # <<>> THEN <<Unguarded(standard_sql)>> ELSE <<>>)
                 \o [n \in 1 .. Len(locales) |-> Unguarded(i18n_sql(locales[n]))],
                 data)

\* UPDATE.__call__(records), for at most one record
UPDATE(model, records, rnd) ==
    IF records = <<>> THEN Pair(<<>>, EmptyDict)
    ELSE LET record == records[1] IN
         IF record.isRecord /\ changes(record, model) # <<>>
         THEN generateCommand(record, changes(record, model), rnd)
         ELSE Pair(<<>>, EmptyDict)

\* the database: its tables with their columns, the row of the record in the table
\* and its rows, by locale, in the i18n table
NoTables == [t \in {} |-> {}]

PrimaryOnly == [t \in {Table} |-> {"id"}]

WithI18n == [t \in {Table, I18nTable} |-> IF t = Table THEN {"id"} ELSE {"locale", TableId}]

\* the tables of a model that has been synchronised
Synced(model) ==
    LET standard == {f \in FieldsOf(model.columns) :
                        LET c == ColumnOf(model, f)
                        IN ~IsTranslatable(c) /\ ~testFlag(c.flags, FlagsAttr("Virtual"))}
        translated == {f \in FieldsOf(model.columns) :
                          LET c == ColumnOf(model, f)
                          IN IsTranslatable(c) /\ ~testFlag(c.flags, FlagsAttr("Virtual"))}
    IN [t \in {Table} \cup (IF translated = {} THEN {} ELSE {I18nTable}) |->
           IF t = Table THEN standard \cup {"id"} ELSE translated \cup {"locale", TableId}]

\* the rows of a stored record
StoredRows(model, tables) ==
    [row |-> [f \in tables[Table] |-> IF f = "id" THEN PyInt(1) ELSE PyStr("bob")],
     i18n |-> IF I18nTable \in DOMAIN tables
              THEN [l \in {"en"} |-> [f \in tables[I18nTable] \ {"locale", TableId} |->
                                         PyStr("bob")]]
              ELSE [l \in {} |-> <<>>]]

NoRows == [row |-> <<>>, i18n |-> [l \in {} |-> <<>>]]

Database(tables, rows) ==
    [tables |-> tables, row |-> rows.row, i18n |-> rows.i18n, error |-> ""]

\* what the database does with one fragment
RunFrag(db, frag, data) ==
    LET fields == {frag.body[i].field : i \in DOMAIN frag.body}
        bound == /\ frag.idKey \in DOMAIN data
                 /\ \A i \in DOMAIN frag.sets : frag.sets[i].key \in DOMAIN data
        mine == data[frag.idKey] = PyInt(1) /\ "id" \in DOMAIN db.row
        assigned(old) ==
            [f \in DOMAIN old \cup {frag.sets[i].field : i \in DOMAIN frag.sets} |->
                IF \E i \in DOMAIN frag.sets : frag.sets[i].field = f
                THEN data[frag.sets[CHOOSE i \in DOMAIN frag.sets :
                                       /\ frag.sets[i].field = f
                                       /\ \A j \in DOMAIN frag.sets :
                                              frag.sets[j].field = f => j <= i].key]
                ELSE old[f]]
    IN IF db.error # "" THEN db
       ELSE CASE frag.op = "CREATE TABLE" ->
                    IF frag.table \in DOMAIN db.tables
                    THEN [db EXCEPT !.error = "table exists"]
                    ELSE [db EXCEPT !.tables = [t \in DOMAIN @ \cup {frag.table} |->
                                                   IF t = frag.table THEN fields ELSE @[t]]]
              [] frag.op = "ALTER TABLE" ->
                    IF frag.table \notin DOMAIN db.tables
                    THEN [db EXCEPT !.error = "no such table"]
                    ELSE IF fields \cap db.tables[frag.table] # {}
                    THEN [db EXCEPT !.error = "column exists"]
                    ELSE [db EXCEPT !.tables[frag.table] = @ \cup fields]
              [] frag.op = "UPDATE" ->
                    IF frag.table \notin DOMAIN db.tables
                    THEN [db EXCEPT !.error = "no such table"]
                    ELSE IF ~bound THEN [db EXCEPT !.error = "no such parameter"]
                    ELSE IF mine THEN [db EXCEPT !.row = assigned(@)] ELSE db
              [] frag.op = "UPSERT" ->
                    IF frag.table \notin DOMAIN db.tables
                    THEN [db EXCEPT !.error = "no such table"]
                    ELSE IF ~bound THEN [db EXCEPT !.error = "no such parameter"]
                    ELSE IF data[frag.idKey] # PyInt(1) THEN db
                    ELSE [db EXCEPT !.i18n =
                             [l \in DOMAIN @ \cup {frag.locale} |->
                                 IF l # frag.locale THEN @[l]
                                 ELSE IF l \in DOMAIN @ THEN assigned(@[l])
                                 ELSE assigned(<<>>)]]
              [] OTHER -> db

RECURSIVE RunFrags(_, _, _)
RunFrags(db, frags, data) ==
    IF frags = <<>> THEN db ELSE RunFrags(RunFrag(db, Head(frags), data), Tail(frags), data)

\* what the database does with a text: a guarded block runs when the table of its
\* guard is missing
RECURSIVE RunBlocks(_, _, _)
RunBlocks(db, sql, data) ==
    IF sql = <<>> THEN db
    ELSE LET block == Head(sql)
             next == IF block.guard # "" /\ block.guard \in DOMAIN db.tables THEN db
                     ELSE RunFrags(db, block.frags, data)
         IN RunBlocks(next, Tail(sql), data)

NoArgs == [flag |-> FALSE, add |-> <<>>, records |-> 0]

NoResult ==
    [name |-> "", backend |-> "", valid |-> FALSE, args |-> NoArgs, out |-> Pair(<<>>, EmptyDict)]

NoExec == [kind |-> "none", before |-> NoTables]

StatementInit ==
    /\ stModel \in Schemas
    /\ \E isRecord \in BOOLEAN :
          /\ stRecord = NewRecord(stModel, isRecord)
          /\ IF isRecord
             THEN stDb = Database(Synced(stModel), StoredRows(stModel, Synced(stModel)))
             ELSE \E tables \in {NoTables, PrimaryOnly, WithI18n} :
                      stDb = Database(tables, NoRows)
    /\ stResult = NoResult
    /\ stExec = NoExec

StatementIdle ==
    /\ stModel = [type |-> "Model", inherits |-> FALSE, columns |-> <<IdColumn>>]
    /\ stRecord = NewRecord(stModel, FALSE)
    /\ stDb = Database(NoTables, NoRows)
    /\ stResult = NoResult
    /\ stExec = NoExec

\* a generator has been called: the caller has its result and has not used it yet
Called(name, backend, valid, args, out) ==
    /\ stResult' = [name |-> name, backend |-> backend, valid |-> valid, args |-> args,
                    out |-> out]
    /\ stExec' = NoExec
    /\ UNCHANGED <<stModel, stRecord, stDb>>

\* statement('CREATE')(model, includeReferences=...)
Create(includeReferences) ==
    /\ Called("CREATE", "MSSQL", stModel.type = "Table",
              [NoArgs EXCEPT !.flag = includeReferences],
              CREATE(stModel, includeReferences))
    /\ StatementStep

\* the columns a caller adds: those of the model's own with these fields, the id
\* column left out
AddList(model, fields) == SelectSeq(ValueColumns(model), LAMBDA c : c.field \in fields)

\* statement('ALTER')(model, add=add) of the SQL Server back end
Alter(fields) ==
    /\ fields \subseteq FieldsOf(ValueColumns(stModel))
    /\ Called("ALTER", "MSSQL", stModel.type = "Table",
              [NoArgs EXCEPT !.add = AddList(stModel, fields)],
              ALTER(stModel, AddList(stModel, fields)))
    /\ StatementStep

\* statement('ALTER')(model, add=add) of the Postgres back end
AlterPostgres(fields) ==
    /\ fields \subseteq FieldsOf(ValueColumns(stModel))
    /\ Called("ALTER", "Postgres", stModel.type = "Table",
              [NoArgs EXCEPT !.add = AddList(stModel, fields)],
              ALTER_postgres(stModel, AddList(stModel, fields)))
    /\ StatementStep

\* statement('ADD COLUMN')(column)
AddColumn(i) ==
    /\ i \in DOMAIN stModel.columns
    /\ Called("ADD COLUMN", "MSSQL", TRUE, [NoArgs EXCEPT !.add = <<stModel.columns[i]>>],
              ADD_COLUMN(stModel.columns[i]))
    /\ StatementStep

\* statement('CREATE NAMESPACE')(namespace)
CreateNamespace ==
    /\ Called("CREATE NAMESPACE", "MSSQL", TRUE, NoArgs, CREATE_NAMESPACE("reports"))
    /\ StatementStep

\* statement('CREATE INDEX')(index, checkFirst=...), for an index on the model's columns
CreateIndex(unique, checkFirst) ==
    /\ ValueColumns(stModel) # <<>>
    /\ Called("CREATE INDEX", "Postgres", TRUE, [NoArgs EXCEPT !.flag = checkFirst],
              CREATE_INDEX([name |-> "by_name", unique |-> unique,
                            columns |-> ValueColumns(stModel)], checkFirst))
    /\ StatementStep

\* statement('ENABLE INTERNALS')(model, enabled)
EnableInternals(withModel, enabled) ==
    /\ Called("ENABLE INTERNALS", "MSSQL", TRUE, [NoArgs EXCEPT !.flag = enabled],
              ENABLE_INTERNALS(withModel, enabled))
    /\ StatementStep

\* statement('SELECT COUNT')(model, context)
SelectCount(context_columns, matches) ==
    /\ Called("SELECT COUNT", "MSSQL", TRUE, [NoArgs EXCEPT !.flag = matches],
              SELECT_COUNT(stModel, context_columns, matches))
    /\ StatementStep

\* record.set(column, value, locale=locale): the record holds the new value and
\* counts the column as changed
Set(field, locale) ==
    /\ field \in DOMAIN stRecord.values
    /\ IF IsTranslatable(ColumnOf(stModel, field)) THEN locale \in Locales ELSE locale = "-"
    /\ IF locale \in DOMAIN stRecord.values[field]
       THEN stRecord.values[field][locale] # PyStr("tim")
       ELSE TRUE
    /\ stRecord' =
          [stRecord EXCEPT
              !.values[field] = [l \in DOMAIN @ \cup {locale} |->
                                    IF l = locale THEN PyStr("tim") ELSE @[l]],
              !.changed = @ \cup {field}]
    /\ stResult' = NoResult
    /\ stExec' = NoExec
    /\ UNCHANGED <<stModel, stDb>>
    /\ StatementStep

\* statement('UPDATE')([record]) or statement('UPDATE')([])
Update(withRecord) ==
    /\ \E rnd \in [Draws -> Suffixes] :
          Called("UPDATE", "MSSQL", TRUE, [NoArgs EXCEPT !.records = IF withRecord THEN 1 ELSE 0],
                 UPDATE(stModel, IF withRecord THEN <<stRecord>> ELSE <<>>, rnd))
    /\ StatementStep

\* the caller's `sql, data = st(...)` and `conn.execute(sql, data)`
Run ==
    /\ stResult.name # ""
    /\ stExec.kind = "none"
    /\ LET out == stResult.out
           after == RunBlocks(stDb, out.sql, out.data)
       IN CASE out.kind = "raise" ->
                  /\ stExec' = [kind |-> out.exc, before |-> stDb.tables]
                  /\ UNCHANGED stDb
            [] out.kind = "text" ->
                  \* a str of more than two characters does not unpack into two names
                  /\ stExec' = [kind |-> "ValueError", before |-> stDb.tables]
                  /\ UNCHANGED stDb
            [] OTHER ->
                  /\ stExec' = [kind |-> IF after.error = "" THEN "done" ELSE "QueryFailed",
                                before |-> stDb.tables]
                  /\ stDb' = [after EXCEPT !.error = ""]
    /\ UNCHANGED <<stModel, stRecord, stResult>>
    /\ StatementStep

StatementNext ==
    \/ \E includeReferences \in BOOLEAN : Create(includeReferences)
    \/ \E fields \in SUBSET {"name", "title"} : Alter(fields)
    \/ \E fields \in SUBSET {"name", "title"} : AlterPostgres(fields)
    \/ \E i \in 1 .. 3 : AddColumn(i)
    \/ CreateNamespace
    \/ \E unique, checkFirst \in BOOLEAN : CreateIndex(unique, checkFirst)
    \/ \E withModel, enabled \in BOOLEAN : EnableInternals(withModel, enabled)
    \/ \E context_columns \in {PyNone, PyList(<<"name">>)}, matches \in BOOLEAN :
          SelectCount(context_columns, matches)
    \/ \E field \in {"name", "title"}, locale \in Locales \cup {"-"} : Set(field, locale)
    \/ \E withRecord \in BOOLEAN : Update(withRecord)
    \/ Run

\* the places of a command text where a statement starts: a character other than
\* ";" that is the first one or follows a ";"
StatementStarts(text) ==
    {i \in 1 .. Len(text) : text[i] # ";" /\ (i = 1 \/ text[i - 1] = ";")}

\* the statement starting at place i: up to the next ";" or the end of the text
StatementAt(text, i) ==
    LET j == CHOOSE k \in i .. Len(text) :
                /\ \A m \in i .. k : text[m] # ";"
                /\ (k = Len(text) \/ text[k + 1] = ";")
    IN SubSeq(text, i, j)

\* the texts cursor.execute is to be handed for a command text, in order
ExpectedStatements(text) ==
    LET starts == StatementStarts(text)
        n == Cardinality(starts)
        kth(k) == CHOOSE i \in starts : Cardinality({j \in starts : j < i}) = k - 1
        own == [k \in 1 .. n |-> StatementAt(text, kth(k)) \o <<";">>]
    IN IF n > 1 THEN <<<<"BEGIN TRANSACTION", ";">>>> \o own ELSE own

IsPrefix(a, b) == Len(a) <= Len(b) /\ a = SubSeq(b, 1, Len(a))

\* C6: when a statement of a multi-statement batch fails after earlier statements
\* of the batch succeeded, _execute rolls back, so that nothing of the batch stays
\* applied on the connection, raises a classified error, and executes nothing again.
C6_MidBatchFailureRollsBack ==
    (exPc = "done" /\ exFailure.phase = "execute" /\ exFailure.at > 2) =>
        /\ nativeTxn = exEntry.txn
        /\ nativePending = exEntry.pending
        /\ exOutcome.kind = "raise"
        /\ exOutcome.exc \in {"DuplicateEntryFound", "Interruption", "CannotDelete",
                              "QueryFailed"}
        /\ Len(exLog) = exFailure.at

\* C7: _execute hands cursor.execute the non-empty ";"-separated pieces of the
\* command, one at a time and in their order, after a BEGIN TRANSACTION if and only
\* if there is more than one of them.
C7_StatementsInOrder ==
    exCalls > 0 =>
        /\ IsPrefix(exLog, ExpectedStatements(exCommand))
        /\ (exOutcome.kind = "return" => exLog = ExpectedStatements(exCommand))
        /\ (exLog # <<>> =>
               (exLog[1] = <<"BEGIN TRANSACTION", ";">>
                    <=> Cardinality(StatementStarts(exCommand)) > 1))

\* two statements around an empty piece, run to the end in a transaction
C7_Witness ==
    /\ exCommand = <<"i", ";", ";", "d">>
    /\ exOutcome.kind = "return"
    /\ exLog = <<<<"BEGIN TRANSACTION", ";">>, <<"i", ";">>, <<"d", ";">>>>

\* C8: a native integrity error reporting a unique or primary-key violation is
\* raised as DuplicateEntryFound carrying the offending value; every other native
\* error of cursor.execute or cursor.fetchall is raised as QueryFailed carrying the
\* command text and the parameters.
C8_NativeErrorsClassified ==
    (exPc = "done" /\ exFailure.phase # "") =>
        /\ exOutcome.kind = "raise"
        /\ IF exFailure.err \in {UniqueSqlite, UniqueMssql, PrimaryMssql}
           THEN /\ exOutcome.exc = "DuplicateEntryFound"
                /\ \E i \in 1 .. Len(exOutcome.carries[1]) :
                      exOutcome.carries[1][i] = exFailure.err.msg[2]
           ELSE /\ exOutcome.exc = "QueryFailed"
                /\ exOutcome.carries[1] \in {exCommand} \cup {exLog[i] : i \in 1 .. Len(exLog)}
                /\ exOutcome.carries[2] = "data"

\* C9: a native foreign-key violation met while executing a delete reaches the
\* caller as CannotDelete.
C9_ForeignKeyIsCannotDelete ==
    (exPc = "done" /\ exVia = "delete" /\ exFailure.err = ForeignKey) =>
        (exOutcome.kind = "raise" /\ exOutcome.exc = "CannotDelete")

\* C10: when the statement in flight is cancelled through _interrupt and the driver
\* raises its operational error 'interrupted', _execute raises Interruption.
C10_CancelIsInterruption ==
    (exPc = "done" /\ exFailure.err = Interrupted) =>
        (exOutcome.kind = "raise" /\ exOutcome.exc = "Interruption")

\* the rows of the pipe table that link a source and a target
LinksOf(rows, source, target) ==
    LET RECURSIVE Sum(_)
        Sum(S) == IF S = {} THEN 0
                  ELSE LET r == CHOOSE x \in S : TRUE IN rows[r] + Sum(S \ {r})
    IN Sum({row \in RowKinds : row.source = source /\ row.target = target})

\* C11: when addRecord(record, uniqueRecord=True) is called on a record set whose
\* source has no link to record yet, and then called again with the same source and
\* record, the first call inserts a row and returns the link, the second call
\* inserts nothing and returns None, and the pipe table has exactly one row for the
\* pair.
C11_UniqueAddTwiceLinksOnce ==
    [][(/\ pipeLast.op = "addRecord" /\ pipeLast'.op = "addRecord"
        /\ pipeLast.unique /\ pipeLast'.unique
        /\ pipeLast.self.pipe /\ pipeLast'.self.pipe
        /\ validRecord(pipeLast.record)
        /\ ~pipeLast.had
        /\ pipeLast'.self.source = pipeLast.self.source
        /\ pipeLast'.record = pipeLast.record)
       => (/\ pipeLast.ret = "link"
           /\ pipeLast'.ret = "None"
           /\ pipeRows' = pipeRows
           /\ LinksOf(pipeRows', pipeLast.self.source, pipeLast.record) = 1)]_vars

\* a unique add that found the link a unique add had made, which is the only one
C11_Witness ==
    /\ pipeLast.op = "addRecord" /\ pipeLast.unique /\ pipeLast.self.pipe
    /\ validRecord(pipeLast.record)
    /\ pipeLast.had
    /\ pipeLast.ret = "None"
    /\ LinksOf(pipeRows, pipeLast.self.source, pipeLast.record) = 1

\* C12: a removeRecord, clear or remove changes no row of the source and target
\* tables, and deletes exactly the rows of the pipe table whose source is the record
\* set's source, whose target is the record (removeRecord), and whose columns have
\* the values passed as options (and satisfy the where of clear); no other row of
\* the pipe table changes.
C12_RemovalsOnlyMatchingLinks ==
    [][pipeLast'.op \in {"removeRecord", "clear", "remove"} =>
          /\ entityRows' = entityRows
          /\ \A row \in RowKinds :
                LET selected ==
                       /\ pipeLast'.ret = "count" /\ pipeLast'.self.pipe
                       /\ row.source = pipeLast'.self.source
                       /\ (pipeLast'.op = "removeRecord" => row.target = pipeLast'.record)
                       /\ \A cond \in pipeLast'.options : row[cond[1]] = cond[2]
                       /\ \A cond \in pipeLast'.where.conds : row[cond[1]] = cond[2]
                IN pipeRows'[row] = IF selected THEN 0 ELSE pipeRows[row]]_vars

\* a removeRecord that deleted a link and left another one
C12_Witness ==
    /\ pipeLast.op = "removeRecord"
    /\ pipeLast.removed > 0
    /\ RowCount(pipeRows) > 0

\* the value a context holds for an option: the one in raw_values, the registered
\* default when raw_values has none
Held(raw, k) == IF k \in DOMAIN raw THEN raw[k] ELSE Defaults[k]

\* the options that count for equality: those that differ from their default,
\* scope left out
CountedOptions(raw) ==
    {<<k, raw[k]>> : k \in {x \in DOMAIN raw : raw[x] # Defaults[x] /\ x \notin UnhashableOptions}}

\* C13: two contexts are equal (and not unequal) exactly when they have the same
\* non-default values for the options other than scope.
C13_EqualIffSameOptions ==
    optLast.op \in {"eq", "ne"} =>
        LET same == CountedOptions(optNew.raw) = CountedOptions(optSource.raw)
        IN optLast.value = PyBool(IF optLast.op = "eq" THEN same ELSE ~same)

\* the rows a where accepts, a row being the set of the conditions it meets; None
\* and the null query accept every row
Accepts(where) ==
    IF where.t # "Query" THEN SUBSET {"A", "B", "D"}
    ELSE {row \in SUBSET {"A", "B", "D"} : \A i \in 1 .. Len(where.v) : where.v[i] \in row}

\* C14: the where of Context(context=S, where=B) accepts exactly the rows that the
\* where of S, B and the where of the thread's default context, if there is one,
\* all accept.
C14_WhereIsConjunction ==
    (optNew.built /\ optNew.exc = "" /\ ~optNew.source.none) =>
        Accepts(Held(optNew.raw, "where")) =
            Accepts(Held(optNew.source.raw, "where"))
                \cap Accepts(Held(optKwds, "where"))
                \cap Accepts(Held(optDefault.raw, "where"))

\* a where made of the default context's D, the source's A and the B passed
C14_Witness ==
    /\ optNew.built /\ optNew.exc = ""
    /\ Held(optDefault.raw, "where") = PyQuery(<<"D">>)
    /\ Held(optNew.source.raw, "where") = PyQuery(<<"A">>)
    /\ Held(optKwds, "where") = PyQuery(<<"B">>)
    /\ Accepts(Held(optNew.raw, "where")) = {{"A", "B", "D"}}

\* C15: for every option other than columns and where, a new context holds the
\* keyword value when one is given, else the source context's value when it has
\* one, else the default context's value when it has one, else the registered
\* default.
C15_OptionPrecedence ==
    (optNew.built /\ optNew.exc = "") =>
        \A k \in DOMAIN Defaults \ {"columns", "where"} :
            Held(optNew.raw, k) =
                IF k \in DOMAIN optKwds THEN optKwds[k]
                ELSE IF k \in DOMAIN optNew.source.raw THEN optNew.source.raw[k]
                ELSE IF k \in DOMAIN optDefault.raw THEN optDefault.raw[k]
                ELSE Defaults[k]

\* a keyword value kept, and a source value taken although the default context has
\* another one
C15_Witness ==
    /\ optNew.built /\ optNew.exc = ""
    /\ "scope" \in DOMAIN optKwds /\ "inflated" \notin DOMAIN optKwds
    /\ Held(optNew.source.raw, "scope") = PyStr("s2")
    /\ Held(optNew.source.raw, "inflated") = PyBool(FALSE)
    /\ Held(optDefault.raw, "inflated") = PyBool(TRUE)
    /\ "inflated" \in DOMAIN optDefault.raw
    /\ optNew.raw["scope"] = PyStr("s1")
    /\ optNew.raw["inflated"] = PyBool(FALSE)

\* a list of columns, empty for None
ColumnsOf(value) == IF value.t = "list" THEN value.v ELSE <<>>

\* the entries of a list at their first place only
FirstSeen(l) == SelectSeq([i \in 1 .. Len(l) |-> IF \E j \in 1 .. i - 1 : l[j] = l[i]
                                                   THEN "" ELSE l[i]],
                          LAMBDA col : col # "")

\* C16: in a thread whose default context has no columns, Context(context=S,
\* columns=C), for C a list or omitted, has the columns of S followed by the members
\* of C that S does not have, each once, in the order they are first seen; C when
\* S has no columns.
C16_ColumnsUnion ==
    (/\ optNew.built /\ ~optNew.source.none
     /\ ColumnsOf(Held(optDefault.raw, "columns")) = <<>>
     /\ "columns" \in DOMAIN optKwds => optKwds["columns"].t = "list") =>
        LET S == ColumnsOf(Held(optNew.source.raw, "columns"))
            C == ColumnsOf(Held(optKwds, "columns"))
            InS(col) == \E i \in 1 .. Len(S) : S[i] = col
        IN /\ optNew.exc = ""
           /\ ColumnsOf(Held(optNew.raw, "columns")) =
                 IF S = <<>> THEN C
                 ELSE S \o FirstSeen(SelectSeq(C, LAMBDA col : ~InS(col)))

\* C17: reading an option through __getattr__ gives the value the context was
\* built with, falsy values included, and the registered default for an option
\* that was never set.
C17_ReadReturnsExplicit ==
    (optLast.op = "read" /\ optLast.key \notin {"limit", "start"}) =>
        /\ optLast.exc = ""
        /\ optLast.value = Held(optNew.raw, optLast.key)
        /\ optLast.key \in DOMAIN optKwds => optLast.value = optKwds[optLast.key]

\* C18: limit is pageSize when pageSize is set and the explicit limit otherwise;
\* start is (page - 1) * limit when page is set, whichever of pageSize and limit are
\* set, and the explicit start otherwise.
C18_LimitAndStart ==
    LET raw == optNew.raw
        lim == IF "pageSize" \in DOMAIN raw THEN raw["pageSize"] ELSE Held(raw, "limit")
    IN /\ (optLast.op = "read" /\ optLast.key = "limit") =>
              (optLast.exc = "" /\ optLast.value = lim)
       /\ (optLast.op = "read" /\ optLast.key = "start") =>
              /\ optLast.exc = ""
              /\ IF "page" \in DOMAIN raw
                 THEN /\ lim.t = "int"
                      /\ optLast.value = PyInt((raw["page"].v - 1) * lim.v)
                 ELSE optLast.value = Held(raw, "start")

\* the key paths of a nested mapping: one for every key at every level
RECURSIVE TreePaths(_)
TreePaths(tree) ==
    UNION {{<<k>>} \cup {<<k>> \o below : below \in TreePaths(tree[k])} : k \in DOMAIN tree}

\* the texts of a list joined with sep between them
RECURSIVE JoinWith(_, _)
JoinWith(texts, sep) ==
    IF texts = <<>> THEN <<>>
    ELSE IF Len(texts) = 1 THEN texts[1]
    ELSE texts[1] \o <<sep>> \o JoinWith(Tail(texts), sep)

\* a dotted path: keys, none of them empty, with "." between them
WellFormedPath(path) ==
    /\ path # <<>>
    /\ \A i \in 1 .. Len(path) :
          /\ path[i] \in {"a", "b", "."}
          /\ path[i] = "." => (i > 1 /\ i < Len(path) /\ path[i - 1] # ".")

\* C19: for an expand that normalises to at least one dotted path, expandtree
\* returns, without raising, the nested mapping whose key paths are exactly the
\* dotted paths and their leading parts.
C19_ExpandTreeFoldsPaths ==
    (/\ expLast.op = "expandtree"
     /\ expLast.output.t = "list" /\ expLast.output.v # <<>>
     /\ \A i \in 1 .. Len(expLast.output.v) : WellFormedPath(expLast.output.v[i])) =>
        /\ expLast.exc = ""
        /\ TreePaths(expLast.tree) =
              UNION {{SubSeq(SplitOn(expLast.output.v[i], "."), 1, n) :
                         n \in 1 .. Len(SplitOn(expLast.output.v[i], "."))} :
                     i \in 1 .. Len(expLast.output.v)}

\* C20: expand gives a list: of a comma-joined string, the tokens in order; of a
\* set, its members; of a nested mapping, the dotted path to every key at every
\* level; of a list, the list itself; so that a context built with the list
\* gives the same list again.
C20_ExpandNormalizes ==
    LET in == expLast.input
        out == expLast.output
        Members == {out.v[i] : i \in 1 .. Len(out.v)}
    IN expLast.op \in {"expand", "renormalize", "expandtree"} =>
          /\ in.t \in {"text", "set", "dict", "list"} => out.t = "list"
          /\ in.t = "text" =>
                /\ JoinWith(out.v, ",") = in.v
                /\ \A i \in 1 .. Len(out.v) : \A j \in 1 .. Len(out.v[i]) : out.v[i][j] # ","
          /\ in.t = "set" => (Members = in.v /\ Len(out.v) = Cardinality(in.v))
          /\ in.t = "dict" =>
                /\ Members = {JoinWith(path, ".") : path \in TreePaths(in.v)}
                /\ Len(out.v) = Cardinality(TreePaths(in.v))
          /\ in.t = "list" => out = in
          /\ expLast.op = "renormalize" => out = expValue

\* the three paths of a mapping three levels deep, normalised a second time
C20_Witness ==
    /\ expLast.op = "renormalize"
    /\ expLast.input = PyDict(OneKey(<<"a">>, OneKey(<<"b">>, OneKey(<<"a">>, EmptyDict))))
    /\ Len(expLast.output.v) = 3
    /\ expLast.output = expValue

C29_BatchTransactionCommitted ==
    (/\ exPc = "done" /\ exOutcome.kind = "return"
     /\ exCommands # <<>> /\ exCommands[1] = BeginTransaction)
        => nativeTxn = exEntry.txn

\* C30: when threads call addRecord(record, uniqueRecord=True) on record sets of
\* the same source with the same target, however their looks and commits
\* interleave, the pipe table never holds more than one row for that source and
\* target.
C30_ConcurrentUniqueAddLinksOnce ==
    \A source \in Sources, target \in Targets : LinksOf(pipeRows, source, target) <= 1

\* C28: _closed(native) answers false while the handle is open and true once the
\* handle has been closed or its connection has been lost.
C28_ClosedReportsUsability ==
    connLast.op = "_closed" => (connLast.answer <=> connLast.state \in {"closed", "lost"})

\* C27: what Column.fromJSON makes of the serialized definition of a column is a
\* column with the same name, field, flags, default and index, whatever the
\* column's flags and default; from a definition whose type name is not
\* registered it raises InvalidColumnType.
C27_JsonRoundTrip ==
    jsLoaded.kind # "none" =>
        IF jsLoaded.type.v \in RegisteredTypes
        THEN /\ jsLoaded.kind = "column"
             /\ jsLoaded.column.name = jsColumn.name
             /\ jsLoaded.column.field = jsColumn.field
             /\ jsLoaded.column.flags = jsColumn.flags
             /\ jsLoaded.column.default = jsColumn.default
             /\ jsLoaded.column.index = jsColumn.index
        ELSE jsLoaded.kind = "raise" /\ jsLoaded.exc = "InvalidColumnType"


\* C21: once the UPDATE generated for a persisted record with changed columns has been
\* executed with its parameters, the stored row of the record holds, for every changed
\* column that is not virtual, the stored form of the record's current value, in the
\* table of the column and for every locale the record has a value in.
C21_UpdateStoresNewValues ==
    (/\ stResult.name = "UPDATE" /\ stResult.args.records = 1
     /\ stRecord.isRecord /\ stRecord.changed # {}
     /\ stExec.kind # "none")
    => /\ stExec.kind = "done"
       /\ \A f \in stRecord.changed :
             LET column == ColumnOf(stModel, f) IN
             \/ testFlag(column.flags, FlagsAttr("Virtual"))
             \/ /\ ~IsTranslatable(column)
                /\ f \in DOMAIN stDb.row
                /\ stDb.row[f] = dbStore(recordGet(stRecord, column), PyNone)
             \/ /\ IsTranslatable(column)
                /\ \A l \in DOMAIN stRecord.values[f] :
                      /\ l \in DOMAIN stDb.i18n
                      /\ f \in DOMAIN stDb.i18n[l]
                      /\ stDb.i18n[l][f] = dbStore(stRecord.values[f][l], PyNone)

\* C22: UPDATE for a persisted record with changes gives a text and its parameters; the
\* text has one UPDATE of the primary table when a standard column changed and none
\* otherwise, one insert-or-update of the i18n table for each locale a changed
\* translatable column has a value in, and no virtual column in either.
C22_UpdateFragments ==
    (/\ stResult.name = "UPDATE" /\ stResult.args.records = 1
     /\ stRecord.isRecord /\ stRecord.changed # {})
    => LET real == {f \in stRecord.changed :
                       ~testFlag(ColumnOf(stModel, f).flags, FlagsAttr("Virtual"))}
           standard == {f \in real : ~IsTranslatable(ColumnOf(stModel, f))}
           translated == real \ standard
           locales == UNION {DOMAIN stRecord.values[f] : f \in translated}
           sql == stResult.out.sql
           frags(op) == {i \in DOMAIN sql : sql[i].frags[1].op = op}
           fieldsOf(i) == {sql[i].frags[1].sets[n].field : n \in DOMAIN sql[i].frags[1].sets}
       IN /\ stResult.out.kind = "pair"
          /\ Cardinality(frags("UPDATE")) = IF standard = {} THEN 0 ELSE 1
          /\ \A i \in frags("UPDATE") :
                sql[i].frags[1].table = Table /\ fieldsOf(i) = standard
          /\ Cardinality(frags("UPSERT")) = Cardinality(locales)
          /\ \A l \in locales :
                \E i \in frags("UPSERT") :
                    /\ sql[i].frags[1].table = I18nTable
                    /\ sql[i].frags[1].locale = l
                    /\ fieldsOf(i) = {f \in translated : l \in DOMAIN stRecord.values[f]}

\* C23: CREATE for a table gives a text whose CREATE TABLE of the primary table holds the
\* model's standard columns that are not virtual and, when a column is translatable,
\* whose CREATE TABLE of "<table>_i18n" holds "locale", "<table>_id", the translatable
\* columns, a reference to the primary table and the primary key ("locale", "<table>_id").
C23_CreateSplitsColumns ==
    (stResult.name = "CREATE" /\ stResult.valid)
    => LET own == {i \in DOMAIN stModel.columns :
                      /\ ~testFlag(stModel.columns[i].flags, FlagsAttr("Virtual"))
                      /\ stResult.args.flag \/ ~stModel.columns[i].reference}
           translated == {stModel.columns[i].field : i \in {j \in own :
                                                      IsTranslatable(stModel.columns[j])}}
           standard == {stModel.columns[i].field : i \in own} \ translated
           frags == IF stResult.out.sql = <<>> THEN <<>> ELSE stResult.out.sql[1].frags
           fieldsOf(frag) == {frag.body[n].field : n \in DOMAIN frag.body}
       IN /\ stResult.out.kind = "pair"
          /\ Len(frags) = IF translated = {} THEN 1 ELSE 2
          /\ frags[1].op = "CREATE TABLE" /\ frags[1].table = Table
          /\ fieldsOf(frags[1]) \ {"__base_id"} = standard
          /\ translated # {} =>
                /\ frags[2].op = "CREATE TABLE" /\ frags[2].table = I18nTable
                /\ fieldsOf(frags[2]) = {"locale", TableId} \cup translated
                /\ frags[2].references = Table
                /\ frags[2].key = <<"locale", TableId>>

\* C24: once the ALTER generated for a table with a translatable column among the added
\* ones has been executed on a database that has the primary table and none of the
\* added columns, the table "<table>_i18n" exists and has every added translatable
\* column.
C24_AlterLeavesI18nTable ==
    LET added == {stResult.args.add[i].field : i \in DOMAIN stResult.args.add}
        translated == {stResult.args.add[i].field :
                          i \in {j \in DOMAIN stResult.args.add :
                                    IsTranslatable(stResult.args.add[j])}}
        before == stExec.before
    IN (/\ stResult.name = "ALTER" /\ stResult.valid
        /\ translated # {}
        /\ stExec.kind # "none"
        /\ Table \in DOMAIN before
        /\ \A t \in DOMAIN before : before[t] \cap added = {})
       => /\ I18nTable \in DOMAIN stDb.tables
          /\ translated \subseteq stDb.tables[I18nTable]

\* C26: a statement generator called with valid arguments returns a text and a mapping
\* of parameters, which the caller unpacks into two names.
C26_GeneratorsReturnPairs ==
    (stResult.name # "" /\ stResult.valid) => stResult.out.kind = "pair"

(***************************************************************************)
(* Specifications                                                          *)
(***************************************************************************)
\* Column.validate on every column and value
InitColumn == ColInit /\ CtxIdle /\ LookupIdle /\ ExecuteInit /\ PipeIdle
    /\ OptionsIdle /\ ExpandIdle
    /\ RaceIdle
    /\ HandleIdle
    /\ JsonIdle
    /\ StatementIdle

SpecColumn == InitColumn /\ [][ColNext]_vars

\* `with Context(...)` blocks nested in one thread
InitNesting == ColIdle /\ CtxInitOneThread /\ LookupIdle /\ ExecuteInit /\ PipeIdle
    /\ OptionsIdle /\ ExpandIdle
    /\ RaceIdle
    /\ HandleIdle
    /\ JsonIdle
    /\ StatementIdle

SpecNesting == InitNesting /\ [][CtxNext]_vars

\* threads interleaving their calls on the default-context stack
InitThreads == ColIdle /\ CtxInit /\ LookupIdle /\ ExecuteInit /\ PipeIdle
    /\ OptionsIdle /\ ExpandIdle
    /\ RaceIdle
    /\ HandleIdle
    /\ JsonIdle
    /\ StatementIdle

SpecThreads == InitThreads /\ [][CtxNext]_vars

\* calls and preloads of a reverse lookup as time passes
InitLookup == ColIdle /\ CtxIdle /\ LookupInit /\ ExecuteInit /\ PipeIdle
    /\ OptionsIdle /\ ExpandIdle
    /\ RaceIdle
    /\ HandleIdle
    /\ JsonIdle
    /\ StatementIdle

SpecLookup == InitLookup /\ [][LookupNext]_vars

\* calls of _execute on one native connection
InitExecute == ColIdle /\ CtxIdle /\ LookupIdle /\ ExecuteInit /\ PipeIdle
    /\ OptionsIdle /\ ExpandIdle
    /\ RaceIdle
    /\ HandleIdle
    /\ JsonIdle
    /\ StatementIdle

SpecExecute == InitExecute /\ [][ExecuteNext]_vars

\* calls on the record sets of one pipe table
InitPipe == ColIdle /\ CtxIdle /\ LookupIdle /\ ExecuteInit /\ PipeInit /\ OptionsIdle /\ ExpandIdle
    /\ RaceIdle
    /\ HandleIdle
    /\ JsonIdle
    /\ StatementIdle

SpecPipe == InitPipe /\ [][PipeNext]_vars

\* contexts constructed with plain options, read and compared
InitOptions ==
    /\ ColIdle /\ CtxIdle /\ LookupIdle /\ ExecuteInit /\ PipeIdle
    /\ optNames = {"inflated", "scope"} /\ OptionsInitCommon /\ ExpandIdle
    /\ RaceIdle
    /\ HandleIdle
    /\ JsonIdle
    /\ StatementIdle

SpecOptions == InitOptions /\ [][OptionsNext]_vars

\* contexts constructed with a where
InitWhere ==
    /\ ColIdle /\ CtxIdle /\ LookupIdle /\ ExecuteInit /\ PipeIdle
    /\ optNames = {"where"} /\ OptionsInitCommon /\ ExpandIdle
    /\ RaceIdle
    /\ HandleIdle
    /\ JsonIdle
    /\ StatementIdle

SpecWhere == InitWhere /\ [][OptionsNext]_vars

\* contexts constructed with columns
InitColumns ==
    /\ ColIdle /\ CtxIdle /\ LookupIdle /\ ExecuteInit /\ PipeIdle
    /\ optNames = {"columns"} /\ OptionsInitCommon /\ ExpandIdle
    /\ RaceIdle
    /\ HandleIdle
    /\ JsonIdle
    /\ StatementIdle

SpecColumns == InitColumns /\ [][OptionsNext]_vars

\* contexts constructed with the paging options
InitPaging ==
    /\ ColIdle /\ CtxIdle /\ LookupIdle /\ ExecuteInit /\ PipeIdle
    /\ optNames = {"page", "pageSize", "limit", "start"} /\ OptionsInitCommon /\ ExpandIdle
    /\ RaceIdle
    /\ HandleIdle
    /\ JsonIdle
    /\ StatementIdle

SpecPaging == InitPaging /\ [][OptionsNext]_vars

\* contexts constructed with an expand, normalised and folded into a tree
InitExpand ==
    /\ ColIdle /\ CtxIdle /\ LookupIdle /\ ExecuteInit /\ PipeIdle /\ OptionsIdle
    /\ ExpandInit
    /\ RaceIdle
    /\ HandleIdle
    /\ JsonIdle
    /\ StatementIdle

SpecExpand == InitExpand /\ [][ExpandNext]_vars

\* threads calling addRecord with uniqueRecord=True on one pipe table
InitPipeRace ==
    /\ ColIdle /\ CtxIdle /\ LookupIdle /\ ExecuteInit /\ PipeInit /\ OptionsIdle
    /\ ExpandIdle /\ RaceIdle
    /\ HandleIdle
    /\ JsonIdle
    /\ StatementIdle

SpecPipeRace == InitPipeRace /\ [][RaceNext]_vars

\* the native handles of a database opened, closed, lost and asked about
InitHandles ==
    /\ ColIdle /\ CtxIdle /\ LookupIdle /\ ExecuteInit /\ PipeIdle /\ OptionsIdle
    /\ ExpandIdle /\ RaceIdle /\ HandleIdle
    /\ JsonIdle
    /\ StatementIdle

SpecHandles == InitHandles /\ [][HandleNext]_vars

\* a column changed, serialized and loaded again
InitJson ==
    /\ ColIdle /\ CtxIdle /\ LookupIdle /\ ExecuteInit /\ PipeIdle /\ OptionsIdle
    /\ ExpandIdle /\ RaceIdle /\ HandleIdle /\ JsonInit
    /\ StatementIdle

SpecJson == InitJson /\ [][JsonNext]_vars

\* the statement generators called for a model and a record, and their results executed
InitStatements ==
    /\ ColIdle /\ CtxIdle /\ LookupIdle /\ ExecuteInit /\ PipeIdle /\ OptionsIdle
    /\ ExpandIdle /\ RaceIdle /\ HandleIdle /\ JsonIdle /\ StatementInit

SpecStatements == InitStatements /\ [][StatementNext]_vars

====
